---- MODULE Spec2Model ----
(***************************************************************************)
(* Model of the StructureDefinitionExporter of SUSHI                       *)
(* (src/export/StructureDefinitionExporter.ts) together with the part of   *)
(* the FSHTank (src/import/FSHTank.ts) it resolves declared entities with. *)
(*                                                                         *)
(* The exporter and its resolver are mutually recursive                    *)
(* (exportStructDef -> getStructureDefinition -> fishForFHIR ->            *)
(* exportStructDef, and setRules -> ... -> fishForFHIR -> exportStructDef),*)
(* so the model keeps the JavaScript call stack explicitly: one frame per  *)
(* active call, one action per stretch of code between two calls.          *)
(***************************************************************************)
EXTENDS Integers, Sequences, FiniteSets, TLC

VARIABLES
    tank,        \* the declared entities, in getAllStructureDefinitions order
    pkg,         \* the output Package: profiles, extensions, logicals
    deferred,    \* deferredRules: artifact oid -> queued CaretValueRules
    log,         \* the diagnostics emitted through logger, in order
    stack,       \* the call stack, top frame last
    ret,         \* the value or exception handed from a callee to its caller
    phase,       \* "new", "exporting" (inside export()), "exported"
    calls,       \* direct exportStructDef calls made after export() returned
    history      \* every exportStructDef call that ended, and how it ended

vars == <<tank, pkg, deferred, log, stack, ret, phase, calls, history>>

----------------------------------------------------------------------------
(* Bounds of the model                                                     *)

NumEntities == 2      \* declared entities in the tank
MaxRules == 2         \* declared rules in the whole tank
MaxStack == 6         \* call-stack depth at which the engine raises RangeError
MaxCalls == 1         \* direct exportStructDef calls after export() returned
MaxDeferred == 3      \* queued rules up to which applyDeferredRules is followed
MaxDecls == 2         \* declarations in the tank of SpecFish
MaxTypes == 2         \* types passed to tank.fish in SpecFish
MaxSliceRules == 3

MaxValueRules == 3    \* declared rules of the entity of SpecValues
MaxDeclared == 3      \* declarations in the documents of SpecOrder
MaxSdRules == 4       \* declared rules of the entity of SpecRules

----------------------------------------------------------------------------
(* Declared entities (fshtypes Profile, Extension, Logical)                *)

Kinds == <<"Profile", "Extension", "Logical">>

Names == <<"A", "B", "C">>

\* The declared id of the entity of a given name.
IdOf(name) ==
    CASE name = "A" -> "a"
      [] name = "B" -> "b"
      [] OTHER -> "c"

\* getUrlFromFshDefinition: canonical/StructureDefinition/id
UrlOf(id) == "http://c/StructureDefinition/" \o id

\* doc.aliases: one alias, for the canonical URL of the entity with id a
resolveAlias(item) == IF item = "$a" THEN UrlOf("a") ELSE item

\* The rules an entity may declare.  kind is the rule's constructorName;
\* unfold names the definition the path resolver has to fish for when it
\* walks the rule's path (the path crosses an element typed by it); ref is
\* the type an OnlyRule constrains to; for a CaretValueRule caretPath and
\* value are its assignment and isInstance marks a value naming an Instance.
Rule(kind, path, unfold, ref, max, caretPath, value, isInstance) ==
    [kind |-> kind, path |-> path, unfold |-> unfold, ref |-> ref, max |-> max,
     caretPath |-> caretPath, value |-> value, isInstance |-> isInstance,
     min |-> 0, strength |-> "", more |-> <<>>]

CardRule(path, unfold, max) == Rule("CardRule", path, unfold, "", max, "", "", FALSE)
OnlyRule(path, ref) == Rule("OnlyRule", path, "", ref, "", "", "", FALSE)
CaretValueRule(path, caretPath, value, isInstance) ==
    Rule("CaretValueRule", path, "", "", "", caretPath, value, isInstance)

\* A ContainsRule with one item: value is the item's name and ref its type
\* (empty: an inline extension).
ContainsRule(path, name, type) == Rule("ContainsRule", path, "", type, "", "", name, FALSE)

\* An item of a ContainsRule: its name and its type (empty: inline).
Item(name, type) == [name |-> name, type |-> type]

\* A ContainsRule with several items: more holds the items after the
\* first.
ContainsRuleOf(path, items) ==
    [ContainsRule(path, items[1].name, items[1].type) EXCEPT !.more = Tail(items)]

\* rule.items
Items(rule) == <<Item(rule.value, rule.ref)>> \o rule.more

\* An ObeysRule: value is the name of the invariant.
ObeysRule(path, invariant) == Rule("ObeysRule", path, "", "", "", "", invariant, FALSE)

\* A CardRule with both of its bounds.
CardRuleOf(path, min, max) == [CardRule(path, "", max) EXCEPT !.min = min]

\* An AssignmentRule: value is what it assigns (the name of an Instance
\* when isInstance is set).
AssignmentRule(path, value, isInstance) ==
    Rule("AssignmentRule", path, "", "", "", "", value, isInstance)

\* A BindingRule: value is its valueSet.
BindingRule(path, valueSet, strength) ==
    [Rule("BindingRule", path, "", "", "", "", valueSet, FALSE) EXCEPT !.strength = strength]

\* An AddElementRule: ref is the type of the new element (empty: the rule
\* is one that newElement / applyAddElementRule rejects).
AddElementRule(path, type) == Rule("AddElementRule", path, "", type, "", "", "", FALSE)

\* A path is kept as the list of its parts (splitOnPathPeriods); the empty
\* path is the empty list.
RuleChoices ==
    { CardRule(<<"extension">>, "", "1"),
      CardRule(<<"extension">>, "B", "1"),
      OnlyRule(<<"extension">>, "A"),
      OnlyRule(<<"extension">>, "B"),
      CaretValueRule(<<>>, "name", "Z", FALSE),
      CaretValueRule(<<>>, "contained", "Inst", TRUE),
      CaretValueRule(<<>>, "contained", "B", TRUE) }

ParentChoices == {"", "Patient", "Nope", "A", "B", "a", "$a"}

\* declared is the number of rules the entity declares: preprocessing
\* appends the rules it infers to them.
\* declaredAt is the position of the declaration in the documents (0: not
\* recorded).
\* title and description are empty when the entity declares none; config
\* is applyExtensionMetadataToRoot of the configuration of its tank
\* ("absent" when the configuration does not have it).
Entity(kind, name, parent, rules) ==
    [kind |-> kind, name |-> name, id |-> IdOf(name), parent |-> parent,
     rules |-> rules, declared |-> Len(rules),
     title |-> "", description |-> "", config |-> "absent", declaredAt |-> 0]

\* The rule lists of at most b rules.
RuleLists(b) == UNION { [1..n -> RuleChoices] : n \in 0..b }

\* The ways to give n entities rule lists holding at most b rules in all.
RECURSIVE RuleAssignments(_, _)
RuleAssignments(n, b) ==
    IF n = 0 THEN { <<>> }
    ELSE UNION { { Append(s, rl) : s \in RuleAssignments(n - 1, b - Len(rl)) } :
                 rl \in RuleLists(b) }

\* getAllStructureDefinitions lists the profiles, then the extensions, then
\* the logicals.
KindAssignments ==
    { k \in [1..NumEntities -> 1..3] :
        \A i \in 1..(NumEntities - 1) : k[i] <= k[i + 1] }

\* Entity i uses one of the first i names: every pattern of equal and
\* distinct names, up to renaming.
NameAssignments == { f \in [1..NumEntities -> 1..3] : \A i \in 1..NumEntities : f[i] <= i }

----------------------------------------------------------------------------
(* Artifacts (fhirtypes StructureDefinition) and the output Package        *)

\* The definitions of the external FHIR package.  context is the
\* expression of the one element context an extension carries (empty: the
\* definition has no context); slicing maps the elements that are sliced
\* to their discriminator.
FhirDefs ==
    { [name |-> "Patient", id |-> "Patient",
       url |-> "http://hl7.org/fhir/StructureDefinition/Patient",
       kind |-> "resource", type |-> "Patient", context |-> "", slicing |-> <<>>,
       elements |-> {<<"extension">>, <<"name">>, <<"gender">>}],
      [name |-> "Extension", id |-> "Extension",
       url |-> "http://hl7.org/fhir/StructureDefinition/Extension",
       kind |-> "complex-type", type |-> "Extension", context |-> "", slicing |-> <<>>,
       elements |-> {<<"extension">>, <<"url">>, <<"value[x]">>}],
      [name |-> "Element", id |-> "Element",
       url |-> "http://hl7.org/fhir/StructureDefinition/Element",
       kind |-> "complex-type", type |-> "Element", context |-> "", slicing |-> <<>>,
       elements |-> {<<"extension">>}],
      [name |-> "X", id |-> "x",
       url |-> "http://hl7.org/fhir/StructureDefinition/x",
       kind |-> "complex-type", type |-> "Extension", context |-> "Patient", slicing |-> <<>>,
       elements |-> {<<"extension">>, <<"url">>, <<"value[x]">>}],
      [name |-> "Y", id |-> "y",
       url |-> "http://hl7.org/fhir/StructureDefinition/y",
       kind |-> "complex-type", type |-> "Extension", context |-> "Element",
       slicing |-> <<[key |-> <<"extension">>, val |-> "type/$this"]>>,
       elements |-> {<<"extension">>, <<"url">>, <<"value[x]">>}] }

\* What a fisher hands back: the JSON of a definition, or nothing.  cards
\* and mins are the bounds constrained on elements, bindings and values
\* the value sets bound and the values assigned to them; rootShort and
\* rootDefinition are the short and the definition of the root element;
\* constraints are the constraints attached to elements.
NoJson ==
    [found |-> FALSE, oid |-> 0, name |-> "", id |-> "", url |-> "", kind |-> "",
     type |-> "", elements |-> {}, slices |-> <<>>, cards |-> <<>>,
     mins |-> <<>>, bindings |-> <<>>, values |-> <<>>,
     title |-> "", description |-> "", rootShort |-> "", rootDefinition |-> "",
     context |-> "", constraints |-> <<>>, slicing |-> <<>>, inProgress |-> FALSE]

\* StructureDefinition.toJSON of a published artifact: the transient
\* inProgress marker travels with it.
ToJSON(sd) ==
    [found |-> TRUE, oid |-> sd.oid, name |-> sd.name, id |-> sd.id, url |-> sd.url,
     kind |-> sd.kind, type |-> sd.type, elements |-> sd.elements,
     slices |-> sd.slices, cards |-> sd.cards,
     mins |-> sd.mins, bindings |-> sd.bindings, values |-> sd.values,
     title |-> sd.title, description |-> sd.description,
     rootShort |-> sd.rootShort, rootDefinition |-> sd.rootDefinition,
     context |-> sd.context, constraints |-> sd.constraints, slicing |-> sd.slicing,
     inProgress |-> sd.inProgress]

DefJSON(d) ==
    [found |-> TRUE, oid |-> 0, name |-> d.name, id |-> d.id, url |-> d.url,
     kind |-> d.kind, type |-> d.type, elements |-> d.elements,
     slices |-> <<>>, cards |-> <<>>,
     mins |-> <<>>, bindings |-> <<>>, values |-> <<>>,
     title |-> d.name, description |-> "Base definition of " \o d.name,
     rootShort |-> d.name, rootDefinition |-> "Base definition of " \o d.name,
     context |-> d.context, constraints |-> <<>>, slicing |-> d.slicing,
     inProgress |-> FALSE]

EmptyPackage == [profiles |-> <<>>, extensions |-> <<>>, logicals |-> <<>>]

\* The artifacts of the package, partition after partition.
Artifacts(p) == p.profiles \o p.extensions \o p.logicals

ArtifactSet(p) == { Artifacts(p)[i] : i \in 1..Len(Artifacts(p)) }

ArtifactOf(p, oid) == CHOOSE sd \in ArtifactSet(p) : sd.oid = oid

\* An update of the artifact object oid in place, in whichever partition
\* holds it.
UpdateIn(list, oid, sd) ==
    [i \in 1..Len(list) |-> IF list[i].oid = oid THEN sd ELSE list[i]]

UpdateArtifact(p, oid, sd) ==
    [profiles |-> UpdateIn(p.profiles, oid, sd),
     extensions |-> UpdateIn(p.extensions, oid, sd),
     logicals |-> UpdateIn(p.logicals, oid, sd)]

Matches(d, item) == d.name = item \/ d.id = item \/ d.url = item

\* Package.fishForFHIR: the first published artifact known by that name,
\* id or url.
PackageFishForFHIR(p, item) ==
    LET all == Artifacts(p)
        hits == { i \in 1..Len(all) : Matches(all[i], item) }
    IN  IF hits = {} THEN NoJson
        ELSE ToJSON(all[CHOOSE i \in hits : \A j \in hits : i <= j])

\* FHIRDefinitions.fishForFHIR: the external library.
FhirFishForFHIR(item) ==
    IF \E d \in FhirDefs : Matches(d, item)
    THEN DefJSON(CHOOSE d \in FhirDefs : Matches(d, item))
    ELSE NoJson

\* MasterFisher.fishForFHIR: the published artifacts, then the external
\* library; declared entities that are not compiled yet are not FHIR.
MasterFishForFHIR(p, item) ==
    LET base == resolveAlias(item)
        mine == PackageFishForFHIR(p, base)
    IN  IF mine.found THEN mine ELSE FhirFishForFHIR(base)

----------------------------------------------------------------------------
(* FSHTank.fish                                                            *)

\* What a tank can hold besides the entities the exporter compiles: a
\* declaration of any kind, with the version getVersionFromFshDefinition
\* gives it.
Decl(kind, name, version) ==
    [kind |-> kind, name |-> name, id |-> IdOf(name), version |-> version,
     instanceOf |-> "", usage |-> "", derivation |-> {}, typeExtension |-> FALSE,
     sdKind |-> {}]

\* An Instance: what it is an instance of, its usage, and what its
\* assignment rules on derivation, type and kind assign.
Instance(name, instanceOf, usage, derivation, typeExtension, sdKind) ==
    [Decl("Instance", name, "1") EXCEPT !.instanceOf = instanceOf, !.usage = usage,
                                        !.derivation = derivation,
                                        !.typeExtension = typeExtension,
                                        !.sdKind = sdKind]

\* getUrlFromFshDefinition: the canonical, the resource type, the id.
DeclUrl(d) ==
    IF d.kind = "Instance" THEN "http://c/" \o d.instanceOf \o "/" \o d.id
    ELSE IF d.kind \in {"ValueSet", "CodeSystem"} THEN "http://c/" \o d.kind \o "/" \o d.id
    ELSE UrlOf(d.id)

\* item.split('|'): the base and the version ("" for none), over the
\* versioned identifiers the model uses.
SplitItem(item) ==
    CASE item = "A|1" -> <<"A", "1">>
      [] item = "A|2" -> <<"A", "2">>
      [] OTHER -> <<item, "">>

\* Instance first, where the code has it seventh.
AllTypesInstanceFirst ==
    <<"Instance", "Profile", "Extension", "Logical", "Resource", "ValueSet", "CodeSystem",
      "Invariant", "RuleSet", "Mapping">>

\* No types passed in means to search all supported types.
AllTypes ==
    <<"Profile", "Extension", "Logical", "Resource", "ValueSet", "CodeSystem", "Instance",
      "Invariant", "RuleSet", "Mapping">>

\* Array.prototype.find over the declarations at the positions S.
FirstOf(S) == IF S = {} THEN 0 ELSE CHOOSE i \in S : \A j \in S : i <= j

\* One case of the switch: the first declaration of kind k known by that
\* name, id or url (and version), else the first definitional Instance
\* that declares such a kind; Instances by name or id; Invariants,
\* RuleSets and Mappings by name; 0 when there is none.
FishKind(t, base, version, k) ==
    LET known(i) == t[i].name = base \/ t[i].id = base \/ DeclUrl(t[i]) = base
        versioned(i) == version = "" \/ version = t[i].version
        own == { i \in 1..Len(t) : t[i].kind = k /\ known(i) /\ versioned(i) }
        definitional(i, of) ==
            /\ t[i].kind = "Instance"
            /\ t[i].instanceOf = of
            /\ t[i].usage = "Definition"
            /\ known(i)
            /\ versioned(i)
        declares(i) ==
            CASE k = "Profile" ->
                   "constraint" \in t[i].derivation /\ ~t[i].typeExtension
              [] k = "Extension" ->
                   "constraint" \in t[i].derivation /\ t[i].typeExtension
              [] k = "Logical" ->
                   "specialization" \in t[i].derivation /\ "logical" \in t[i].sdKind
              [] k = "Resource" ->
                   "specialization" \in t[i].derivation /\ "resource" \in t[i].sdKind
    IN  CASE k \in {"Profile", "Extension", "Logical", "Resource"} ->
               IF own # {} THEN FirstOf(own)
               ELSE FirstOf({ i \in 1..Len(t) :
                                definitional(i, "StructureDefinition") /\ declares(i) })
          [] k \in {"ValueSet", "CodeSystem"} ->
               IF own # {} THEN FirstOf(own)
               ELSE FirstOf({ i \in 1..Len(t) : definitional(i, k) })
          [] k = "Instance" ->
               FirstOf({ i \in 1..Len(t) :
                           /\ t[i].kind = "Instance"
                           /\ (t[i].name = base \/ t[i].id = base)
                           /\ versioned(i) })
          [] k \in {"Invariant", "RuleSet", "Mapping"} ->
               FirstOf({ i \in 1..Len(t) : t[i].kind = k /\ t[i].name = base })
          [] OTHER -> 0

\* for (const t of types): the first case that has a result returns it.
RECURSIVE FishTypes(_, _, _, _)
FishTypes(t, base, version, types) ==
    IF types = <<>> THEN 0
    ELSE LET hit == FishKind(t, base, version, Head(types))
         IN  IF hit # 0 THEN hit ELSE FishTypes(t, base, version, Tail(types))

\* tank.fish(item, ...types): the alias is resolved, the version split
\* off, and the kinds are tried in the order given (all of them when none
\* is given).
TankFish(t, item, types) ==
    LET split == SplitItem(resolveAlias(item))
    IN  FishTypes(t, split[1], split[2], IF types = <<>> THEN AllTypes ELSE types)

\* fishForMetadata(item, Type.Extension), read for the url it yields (the
\* empty string: nothing found): a declared Extension, else a published or
\* an external definition of type Extension.  Nothing is exported for it.
FishForMetadataUrl(t, p, item) ==
    LET hit == TankFish(t, item, <<"Extension">>)
        json == MasterFishForFHIR(p, item)
    IN  IF hit # 0 THEN UrlOf(t[hit].id)
        ELSE IF json.found /\ json.type = "Extension" THEN json.url
        ELSE ""

----------------------------------------------------------------------------
(* preprocessStructureDefinition: inference of value[x] / extension 0..0   *)

\* splitOnPathPeriods: the empty path splits into one empty part.
PathParts(path) == IF path = <<>> THEN <<"">> ELSE path

\* pathPart.startsWith('extension') and pathPart.startsWith('value'), over
\* the path parts the model uses.
StartsWithExtension(part) == part \in {"extension", "extension[sub]"}

StartsWithValue(part) == part \in {"value[x]", "valueString"}

\* inferredCardRulesMap is a Map: a list of entries in insertion order.
MapHas(m, key) == \E i \in 1..Len(m) : m[i].key = key

\* Map.get, read as a condition: a missing entry is falsy.
MapGet(m, key) == \E i \in 1..Len(m) : m[i].key = key /\ m[i].val

\* Map.set: an existing key keeps its place.
MapSet(m, key, val) ==
    IF MapHas(m, key)
    THEN [i \in 1..Len(m) |-> IF m[i].key = key THEN [key |-> key, val |-> val] ELSE m[i]]
    ELSE Append(m, [key |-> key, val |-> val])

\* One path part of one rule (the body of rulePathParts.forEach).  acc holds
\* the map and the rules an error was logged for.
PreprocessPart(acc, rule, ri, i, isExtension) ==
    LET parts == PathParts(rule.path)
        isOnExtension ==
            \/ (isExtension /\ Len(parts) = 1)
            \/ (i > 1 /\ StartsWithExtension(parts[i - 1]))
        basePath == SubSeq(parts, 1, i - 1)
        zeroed == rule.kind = "CardRule" /\ rule.max = "0"
        own == IF StartsWithExtension(parts[i]) THEN "extension" ELSE "value[x]"
        other == IF StartsWithExtension(parts[i]) THEN "value[x]" ELSE "extension"
        contradictory == Append(basePath, own)
        relevant == Append(basePath, other)
    IN  IF ~isOnExtension THEN acc
        ELSE IF ~(StartsWithExtension(parts[i]) \/ StartsWithValue(parts[i])) THEN acc
        ELSE IF ~zeroed
             THEN IF MapGet(acc.map, contradictory)
                  THEN [map |-> MapSet(acc.map, contradictory, FALSE),
                        errors |-> Append(acc.errors, ri)]
                  ELSE [acc EXCEPT !.map = MapSet(acc.map, relevant, TRUE)]
             ELSE IF MapGet(acc.map, contradictory)
                  THEN [acc EXCEPT !.map = MapSet(acc.map, contradictory, FALSE)]
                  ELSE acc

RECURSIVE PreprocessRule(_, _, _, _, _)
PreprocessRule(acc, rule, ri, i, isExtension) ==
    IF i > Len(PathParts(rule.path)) THEN acc
    ELSE PreprocessRule(PreprocessPart(acc, rule, ri, i, isExtension),
                        rule, ri, i + 1, isExtension)

RECURSIVE PreprocessRules(_, _, _, _)
PreprocessRules(acc, rules, ri, isExtension) ==
    IF ri > Len(rules) THEN acc
    ELSE PreprocessRules(PreprocessRule(acc, rules[ri], ri, 1, isExtension),
                         rules, ri + 1, isExtension)

\* preprocessStructureDefinition that pushes no rule.
InferredCardRulesNone(m) == <<>>

\* The 0..0 CardRules pushed for the entries that are still set.
RECURSIVE InferredCardRules(_)
InferredCardRules(m) ==
    IF m = <<>> THEN <<>>
    ELSE (IF Head(m).val THEN <<CardRule(Head(m).key, "", "0")>> ELSE <<>>)
         \o InferredCardRules(Tail(m))

\* preprocessStructureDefinition: the rules after it, and the rules it
\* logged a value/sub-extension error for.
preprocessStructureDefinition(rules, isExtension) ==
    LET acc == PreprocessRules([map |-> <<>>, errors |-> <<>>], rules, 1, isExtension)
    IN  [rules |-> rules \o InferredCardRules(acc.map), errors |-> acc.errors]

----------------------------------------------------------------------------
(* Call stack, return values, diagnostics                                  *)

\* A call in progress.  fn is the function, e the entity it works on, item
\* the identifier fished for, pc the place in the function, sd the artifact
\* it builds (0: none yet), r the next rule and n the number of rules that
\* setRules iterates over; began is the number of exportStructDef calls
\* that had ended when the call began.
Frame(fn, e, item, pc, sd, r, n) ==
    [fn |-> fn, e |-> e, item |-> item, pc |-> pc, sd |-> sd, r |-> r, n |-> n,
     began |-> Len(history)]

NoRet == [t |-> "none", code |-> "", loc |-> 0, oid |-> 0, json |-> NoJson]

\* exportStructDef returns an artifact (oid 0: undefined).
ReturnSd(oid) == [NoRet EXCEPT !.t = "return", !.oid = oid]

\* fishForFHIR returns JSON (or nothing).
ReturnJson(json) == [NoRet EXCEPT !.t = "return", !.json = json]

\* An exception in flight; loc is the entity of its sourceInfo (0: the
\* error carries none).
Throw(code, loc) == [NoRet EXCEPT !.t = "throw", !.code = code, !.loc = loc]

\* A diagnostic: severity, what it says, and the source location it is
\* given (entity e, rule r of it; r = 0 for the entity itself; e = 0 when
\* no location is passed to the logger).
Diag(sev, code, e, r) == [sev |-> sev, code |-> code, e |-> e, r |-> r]

Top == stack[Len(stack)]

SetTop(f) == [stack EXCEPT ![Len(stack)] = f]

Pop == SubSeq(stack, 1, Len(stack) - 1)

InFrame(fn, pc) == stack # <<>> /\ Top.fn = fn /\ Top.pc = pc

\* The record history keeps of an exportStructDef call that ends.
Ended(f, hit, out, oid, code) ==
    [e |-> f.e, hit |-> hit, out |-> out, oid |-> oid, code |-> code,
     r |-> f.r, n |-> f.n, depth |-> Len(stack), phase |-> phase]

\* A call: the caller moves to the place where it waits for the callee.
\* A stack that is full makes the call itself raise RangeError (Maximum
\* call stack size exceeded).
Invoke(caller, callee) ==
    IF Len(stack) < MaxStack
    THEN /\ stack' = Append(SetTop(caller), callee)
         /\ ret' = NoRet
    ELSE /\ stack' = SetTop(caller)
         /\ ret' = Throw("RangeError", 0)

----------------------------------------------------------------------------
(* Initial state: a tank of declared entities, nothing compiled            *)

Init ==
    /\ \E k \in KindAssignments, nm \in NameAssignments,
          par \in [1..NumEntities -> ParentChoices],
          rl \in RuleAssignments(NumEntities, MaxRules) :
            tank = [i \in 1..NumEntities |->
                       Entity(Kinds[k[i]], Names[nm[i]], par[i], rl[i])]
    /\ pkg = EmptyPackage
    /\ deferred = <<>>
    /\ log = <<>>
    /\ stack = <<>>
    /\ ret = NoRet
    /\ phase = "new"
    /\ calls = 0
    /\ history = <<>>

----------------------------------------------------------------------------
(* export(): the loop over tank.getAllStructureDefinitions()               *)

Export ==
    /\ phase = "new"
    /\ phase' = "exporting"
    /\ stack' = <<Frame("export", 1, "", "next", 0, 0, 0)>>
    /\ UNCHANGED <<tank, pkg, deferred, log, ret, calls, history>>

\* structureDefinitions.forEach: this.exportStructDef(sd)
ExportForEach ==
    /\ InFrame("export", "next")
    /\ Top.e <= Len(tank)
    /\ Invoke([Top EXCEPT !.pc = "wait"],
              Frame("exportStructDef", Top.e, "", "start", 0, 0, 0))
    /\ UNCHANGED <<tank, pkg, deferred, log, phase, calls, history>>

\* exportStructDef returned: on to the next entity.
ExportForEachNext ==
    /\ InFrame("export", "wait")
    /\ ret.t = "return"
    /\ stack' = SetTop([Top EXCEPT !.pc = "next", !.e = Top.e + 1])
    /\ ret' = NoRet
    /\ UNCHANGED <<tank, pkg, deferred, log, phase, calls, history>>

\* catch (e) { logger.error(e.message, e.sourceInfo || sd.sourceInfo) }
ExportCatch ==
    /\ InFrame("export", "wait")
    /\ ret.t = "throw"
    /\ log' = Append(log, Diag("error", ret.code,
                               IF ret.loc # 0 THEN ret.loc ELSE Top.e, 0))
    /\ stack' = SetTop([Top EXCEPT !.pc = "next", !.e = Top.e + 1])
    /\ ret' = NoRet
    /\ UNCHANGED <<tank, pkg, deferred, phase, calls, history>>

\* The loop is over: the info line, and return this.pkg.
ExportReturn ==
    /\ InFrame("export", "next")
    /\ Top.e > Len(tank)
    /\ log' = IF Len(tank) > 0 THEN Append(log, Diag("info", "Converted", 0, 0)) ELSE log
    /\ stack' = <<>>
    /\ phase' = "exported"
    /\ UNCHANGED <<tank, pkg, deferred, ret, calls, history>>

\* A caller of the exporter calls exportStructDef itself, after export().
Call ==
    /\ phase = "exported"
    /\ stack = <<>>
    /\ ret.t = "none"
    /\ calls < MaxCalls
    /\ \E e \in 1..Len(tank) :
          stack' = <<Frame("exportStructDef", e, "", "start", 0, 0, 0)>>
    /\ calls' = calls + 1
    /\ UNCHANGED <<tank, pkg, deferred, log, ret, phase, history>>

\* That call is over: its caller takes the result or the exception.
CallEnd ==
    /\ phase = "exported"
    /\ stack = <<>>
    /\ ret.t # "none"
    /\ ret' = NoRet
    /\ UNCHANGED <<tank, pkg, deferred, log, stack, phase, calls, history>>

----------------------------------------------------------------------------
(* exportStructDef and getStructureDefinition                              *)

\* The guard of exportStructDef: some artifact of the package has the
\* entity's name.
AlreadyExported(p, def) == \E sd \in ArtifactSet(p) : sd.name = def.name

\* if (pkg.profiles.some(...) || ...) return;
ExportStructDefSkip ==
    /\ InFrame("exportStructDef", "start")
    /\ AlreadyExported(pkg, tank[Top.e])
    /\ stack' = Pop
    /\ ret' = ReturnSd(0)
    /\ history' = Append(history, Ended(Top, TRUE, "return", 0, ""))
    /\ UNCHANGED <<tank, pkg, deferred, log, phase, calls>>

\* The parent getStructureDefinition works with: a missing parent of an
\* Extension or a Logical is set to its default.
ParentOrDefault(def) ==
    IF def.parent # "" THEN def.parent
    ELSE IF def.kind = "Extension" THEN "Extension"
    ELSE IF def.kind = "Logical" THEN "Element"
    ELSE ""

\* The error getStructureDefinition raises before it fishes for the parent
\* ("" when it raises none).
ParentDeclarationError(def) ==
    IF def.parent = "" /\ def.kind = "Profile" THEN "ParentNotProvidedError"
    ELSE IF def.name = ParentOrDefault(def) THEN "ParentDeclaredAsNameError"
    ELSE IF def.id = ParentOrDefault(def) THEN "ParentDeclaredAsIdError"
    ELSE ""

\* getStructureDefinition up to this.fishForFHIR(parentName).
GetStructureDefinition ==
    /\ InFrame("exportStructDef", "start")
    /\ ~AlreadyExported(pkg, tank[Top.e])
    /\ LET def == tank[Top.e]
           err == ParentDeclarationError(def)
       IN  /\ tank' = [tank EXCEPT ![Top.e].parent = ParentOrDefault(def)]
           /\ IF err # ""
              THEN /\ stack' = Pop
                   /\ ret' = Throw(err, Top.e)
                   /\ history' = Append(history, Ended(Top, FALSE, "throw", 0, err))
              ELSE /\ Invoke([Top EXCEPT !.pc = "parent"],
                             Frame("fishForFHIR", 0, ParentOrDefault(def), "start", 0, 0, 0))
                   /\ UNCHANGED history
    /\ UNCHANGED <<pkg, deferred, log, phase, calls>>

\* The checks of the fished parent without the check of an Extension's
\* parent.
ParentErrorNoExtensionCheck(def, parentJson) ==
    IF ~parentJson.found THEN "ParentNotDefinedError"
    ELSE IF def.kind = "Profile" /\ parentJson.kind = "logical"
         THEN "InvalidProfileParentError"
    ELSE IF def.kind = "Logical"
            /\ ~(parentJson.kind = "logical" \/ parentJson.type = "Element")
         THEN "InvalidLogicalParentError"
    ELSE ""

\* The checks of the fished parent ("" when it is a valid parent).
ParentError(def, parentJson) ==
    IF ~parentJson.found THEN "ParentNotDefinedError"
    ELSE IF def.kind = "Profile" /\ parentJson.kind = "logical"
         THEN "InvalidProfileParentError"
    ELSE IF def.kind = "Extension" /\ parentJson.type # "Extension"
         THEN "InvalidExtensionParentError"
    ELSE IF def.kind = "Logical"
            /\ ~(parentJson.kind = "logical" \/ parentJson.type = "Element")
         THEN "InvalidLogicalParentError"
    ELSE ""

\* structDef.context: deleted unless the entity is an Extension; an
\* Extension keeps the context cloned from its parent and gets the default
\* (type element, expression Element) when the clone has none.
Context(def, inherited) ==
    IF def.kind # "Extension" THEN ""
    ELSE IF inherited = "" THEN "Element"
    ELSE inherited

\* The root element's field with the configuration flag not looked at.
RootMetadataIgnoringConfig(def, declared, inherited) ==
    IF declared # "" /\ def.kind = "Extension" THEN declared ELSE inherited

\* The root element's short or definition: the declared title or
\* description of an Extension, unless
\* config.applyExtensionMetadataToRoot === false; otherwise what the
\* parent has.
RootMetadata(def, declared, inherited) ==
    IF declared # "" /\ def.kind = "Extension" /\ def.config # "false"
    THEN declared ELSE inherited

\* setMetadata reading the base URL after it has overwritten url.
setMetadataBaseAfterUrl(oid, e, def, parentJson) ==
    [oid |-> oid, src |-> e,
     name |-> def.name, id |-> def.id, url |-> UrlOf(def.id),
     kind |-> IF def.kind = "Logical" THEN "logical" ELSE parentJson.kind,
     type |-> IF def.kind = "Logical" THEN def.id ELSE parentJson.type,
     baseDefinition |-> UrlOf(def.id),
     derivation |-> IF def.kind = "Logical" THEN "specialization" ELSE "constraint",
     elements |-> parentJson.elements,
     slices |-> parentJson.slices,
     cards |-> parentJson.cards,
     mins |-> parentJson.mins,
     bindings |-> parentJson.bindings,
     values |-> parentJson.values,
     title |-> def.title,
     description |-> def.description,
     rootShort |-> RootMetadata(def, def.title, parentJson.rootShort),
     rootDefinition |-> RootMetadata(def, def.description, parentJson.rootDefinition),
     context |-> Context(def, parentJson.context),
     constraints |-> parentJson.constraints,
     slicing |-> parentJson.slicing,
     inProgress |-> TRUE,
     applied |-> <<>>,
     visited |-> <<>>]

\* StructureDefinition.fromJSON(parentJson) after setMetadata: the clone of
\* the parent with the entity's own id, name and url.  src is the entity
\* it is compiled from, applied the rules applied to it so far and visited
\* the rules setRules has got to; slices are the slices of its elements
\* and cards the cardinalities constrained on them.
setMetadata(oid, e, def, parentJson) ==
    [oid |-> oid, src |-> e,
     name |-> def.name, id |-> def.id, url |-> UrlOf(def.id),
     kind |-> IF def.kind = "Logical" THEN "logical" ELSE parentJson.kind,
     type |-> IF def.kind = "Logical" THEN def.id ELSE parentJson.type,
     baseDefinition |-> parentJson.url,
     derivation |-> IF def.kind = "Logical" THEN "specialization" ELSE "constraint",
     elements |-> parentJson.elements,
     slices |-> parentJson.slices,
     cards |-> parentJson.cards,
     mins |-> parentJson.mins,
     bindings |-> parentJson.bindings,
     values |-> parentJson.values,
     title |-> def.title,
     description |-> def.description,
     rootShort |-> RootMetadata(def, def.title, parentJson.rootShort),
     rootDefinition |-> RootMetadata(def, def.description, parentJson.rootDefinition),
     context |-> Context(def, parentJson.context),
     constraints |-> parentJson.constraints,
     slicing |-> parentJson.slicing,
     inProgress |-> TRUE,
     applied |-> <<>>,
     visited |-> <<>>]

\* sdRules: the first rule at or after position i that is not an
\* AddElementRule (past the end when there is none).
RECURSIVE SdRuleFrom(_, _)
SdRuleFrom(rules, i) ==
    IF i > Len(rules) THEN i
    ELSE IF rules[i].kind # "AddElementRule" THEN i
    ELSE SdRuleFrom(rules, i + 1)

\* setRules without the loop over addElementRules.
AddElementsSkipped(acc, rules, e, i) == acc

\* The loop over addElementRules, from rule i on: newElement and
\* applyAddElementRule inside a try of their own.  acc holds the artifact
\* and the diagnostics logged.
RECURSIVE AddElements(_, _, _, _)
AddElements(acc, rules, e, i) ==
    IF i > Len(rules) THEN acc
    ELSE IF rules[i].kind # "AddElementRule" THEN AddElements(acc, rules, e, i + 1)
    ELSE IF rules[i].ref = "" \/ rules[i].path \in acc.sd.elements
    THEN AddElements([sd |-> [acc.sd EXCEPT !.visited = Append(@, i)],
                      log |-> Append(acc.log, Diag("error", "AddElementError", e, i))],
                     rules, e, i + 1)
    ELSE AddElements([sd |-> [acc.sd EXCEPT !.elements = @ \cup {rules[i].path},
                                            !.applied = Append(@, i),
                                            !.visited = Append(@, i)],
                      log |-> acc.log],
                     rules, e, i + 1)

\* The partition the artifact is pushed to.
Publish(p, sd) ==
    IF sd.type = "Extension" THEN [p EXCEPT !.extensions = Append(@, sd)]
    ELSE IF sd.kind = "logical" THEN [p EXCEPT !.logicals = Append(@, sd)]
    ELSE [p EXCEPT !.profiles = Append(@, sd)]

\* exportStructDef without the inProgress check on the parent.
CircularWarningDropped(e, parentJson) == <<>>

\* logger.warn: circular dependency with the parent.
CircularWarning(e, parentJson) ==
    IF parentJson.inProgress THEN <<Diag("warn", "CircularDependency", e, 0)>> ELSE <<>>

ShapeErrors(e, errors) ==
    [i \in 1..Len(errors) |-> Diag("error", "ValueAndSubExtensions", e, errors[i])]

\* The parent is fished: its checks, then exportStructDef up to the loop
\* over sdRules in setRules (the warning, inProgress, setMetadata, the
\* push, the preprocessing, the loop over addElementRules).
ExportStructDefPublish ==
    /\ InFrame("exportStructDef", "parent")
    /\ ret.t = "return"
    /\ LET def == tank[Top.e]
           err == ParentError(def, ret.json)
           oid == Len(Artifacts(pkg)) + 1
           sd == setMetadata(oid, Top.e, def, ret.json)
           pre == preprocessStructureDefinition(def.rules, sd.type = "Extension")
           added == AddElements([sd |-> sd, log |-> <<>>], pre.rules, Top.e, 1)
       IN  IF err # ""
           THEN /\ stack' = Pop
                /\ ret' = Throw(err, Top.e)
                /\ history' = Append(history, Ended(Top, FALSE, "throw", 0, err))
                /\ UNCHANGED <<tank, pkg, log>>
           ELSE /\ pkg' = Publish(pkg, added.sd)
                /\ tank' = [tank EXCEPT ![Top.e].rules = pre.rules]
                /\ log' = log \o CircularWarning(Top.e, ret.json)
                              \o ShapeErrors(Top.e, pre.errors)
                              \o added.log
                /\ stack' = SetTop([Top EXCEPT !.pc = "rules", !.sd = oid,
                                                !.r = SdRuleFrom(pre.rules, 1),
                                                !.n = Len(pre.rules)])
                /\ ret' = NoRet
                /\ UNCHANGED history
    /\ UNCHANGED <<deferred, phase, calls>>

\* An exception leaves a frame that has no handler around the call it
\* waits for: fishForFHIR, getStructureDefinition's fishForFHIR, and the
\* findElementByPath of setRules.
Unwind ==
    /\ stack # <<>>
    /\ ret.t = "throw"
    /\ \/ Top.fn = "fishForFHIR"
       \/ Top.fn = "exportStructDef" /\ Top.pc \in {"parent", "path"}
    /\ stack' = Pop
    /\ history' = IF Top.fn = "exportStructDef"
                  THEN Append(history, Ended(Top, FALSE, "throw", Top.sd, ret.code))
                  ELSE history
    /\ UNCHANGED <<tank, pkg, deferred, log, ret, phase, calls>>

----------------------------------------------------------------------------
(* setRules                                                                *)

\* The rule setRules is at.
CurrentRule == tank[Top.e].rules[Top.r]

NextRule ==
    SetTop([Top EXCEPT !.pc = "rules", !.r = SdRuleFrom(tank[Top.e].rules, Top.r + 1)])

\* setRules has got to rule r of the artifact.
Visit(p, oid, r) ==
    LET sd == ArtifactOf(p, oid)
    IN  UpdateArtifact(p, oid, [sd EXCEPT !.visited = Append(@, r)])

\* The rule took effect on the artifact.
Applied(p, oid, r) ==
    LET sd == ArtifactOf(p, oid)
    IN  UpdateArtifact(p, oid, [sd EXCEPT !.applied = Append(@, r)])

\* constrainCardinality that sets the upper bound only.
ConstrainCardinalityMaxOnly(p, oid, r, rule) ==
    LET sd == ArtifactOf(p, oid)
    IN  UpdateArtifact(p, oid, [sd EXCEPT !.applied = Append(@, r),
                                          !.cards = MapSet(@, rule.path, rule.max)])

\* element.constrainCardinality(rule.min, rule.max): the bound is set.
ConstrainCardinality(p, oid, r, rule) ==
    LET sd == ArtifactOf(p, oid)
    IN  UpdateArtifact(p, oid, [sd EXCEPT !.applied = Append(@, r),
                                          !.cards = MapSet(@, rule.path, rule.max),
                                          !.mins = MapSet(@, rule.path, rule.min)])

\* InstanceExporter.fishForFHIR(rule.value): the Instances it can export.
ExportableInstances == {"Example"}

\* The InstanceDefinition it returns for the name.
InstanceDefinition(name) == "InstanceDefinition/" \o name

\* element.assignValue(replacedRule.value, replacedRule.exactly, this)
AssignValue(p, oid, r, path, value) ==
    LET sd == ArtifactOf(p, oid)
    IN  UpdateArtifact(p, oid, [sd EXCEPT !.applied = Append(@, r),
                                          !.values = MapSet(@, path, value)])

\* this.fishForMetadata(rule.valueSet, Type.ValueSet)?.url ?? rule.valueSet
\* (the tank of the model declares no value set).
ValueSetURI(t, valueSet) ==
    LET hit == TankFish(t, valueSet, <<"ValueSet">>)
    IN  IF hit # 0 THEN DeclUrl(t[hit]) ELSE valueSet

\* element.bindToVS(vsURI, rule.strength)
BindToVS(p, oid, r, path, vsURI, strength) ==
    LET sd == ArtifactOf(p, oid)
    IN  UpdateArtifact(p, oid,
            [sd EXCEPT !.applied = Append(@, r),
                       !.bindings = MapSet(@, path, [valueSet |-> vsURI,
                                                     strength |-> strength])])

\* tank.getAllInvariants(): the names of the invariants the documents
\* declare.
Invariants == {"inv-1", "inv_2"}

\* this.tank.fish(rule.invariant, Type.Invariant): found by name.
FishInvariant(name) == name \in Invariants

\* The characters of a name.
Chars(name) ==
    CASE name = "inv-1" -> <<"i", "n", "v", "-", "1">>
      [] name = "inv_2" -> <<"i", "n", "v", "_", "2">>
      [] OTHER -> <<>>

IdChars ==
    {"a", "b", "c", "d", "e", "f", "g", "h", "i", "j", "k", "l", "m", "n", "o", "p",
     "q", "r", "s", "t", "u", "v", "w", "x", "y", "z",
     "A", "B", "C", "D", "E", "F", "G", "H", "I", "J", "K", "L", "M", "N", "O", "P",
     "Q", "R", "S", "T", "U", "V", "W", "X", "Y", "Z",
     "0", "1", "2", "3", "4", "5", "6", "7", "8", "9", "-", "."}

\* idRegex.test(name): one to 64 letters, digits, hyphens and dots.
idRegexTest(name) ==
    /\ Len(Chars(name)) \in 1..64
    /\ \A i \in 1..Len(Chars(name)) : Chars(name)[i] \in IdChars

\* The constraint applyConstraint attaches: the invariant's name as key,
\* source the url it is given.
Constraint(path, invariant, source) == [path |-> path, key |-> invariant, source |-> source]

\* The ObeysRule branch of setRules: the constraints of the artifact after
\* it and what it logs.  element.applyConstraint(invariant, structDef.url)
\* comes before the test of the invariant's name, whose
\* InvalidFHIRIdError the catch of the rule logs.
ApplyObeysRule(sd, e, r, rule) ==
    IF ~FishInvariant(rule.value)
    THEN [constraints |-> sd.constraints,
          log |-> <<Diag("error", "InvariantNotDefined", e, r)>>]
    ELSE [constraints |-> Append(sd.constraints, Constraint(rule.path, rule.value, sd.url)),
          log |-> IF idRegexTest(rule.value) THEN <<>>
                  ELSE <<Diag("error", "InvalidFHIRIdError", e, r)>>]

\* The slice of that name on the element at path (0: there is none).
SliceIndex(slices, path, name) ==
    LET hits == { i \in 1..Len(slices) : slices[i].path = path /\ slices[i].name = name }
    IN  IF hits = {} THEN 0 ELSE CHOOSE i \in hits : TRUE

Slice(path, name, profile) == [path |-> path, name |-> name, profile |-> profile]

\* element.type is the single type Extension and the element is no slice.
IsExtensionElement(path) == path # <<>> /\ path[Len(path)] = "extension"

\* handleExtensionContainsRule where every DuplicateSliceError is an error.
HandleExtensionContainsRuleStrict(sd, def, e, r, rule, url) ==
    LET k == SliceIndex(sd.slices, rule.path, rule.value)
    IN  IF k # 0 \/ (rule.ref # "" /\ url = "")
        THEN [slices |-> sd.slices, log |-> <<Diag("error", "DuplicateSliceError", e, r)>>]
        ELSE [slices |-> Append(sd.slices,
                                Slice(rule.path, rule.value,
                                      IF rule.ref # "" THEN <<url>> ELSE <<>>)),
              log |-> <<>>]

\* handleExtensionContainsRule for the item of the rule: the slices of the
\* artifact after it and what it logs.
HandleExtensionContainsRule(sd, def, e, r, rule, url) ==
    LET k == SliceIndex(sd.slices, rule.path, rule.value)
        err(code) == <<Diag("error", code, e, r)>>
    IN  IF rule.ref # ""
        THEN IF url = ""
             THEN [slices |-> sd.slices, log |-> err("CannotCreateExtension")]
             ELSE IF k = 0
             THEN [slices |-> Append(sd.slices, Slice(rule.path, rule.value, <<url>>)),
                   log |-> <<>>]
             ELSE IF \E j \in 1..Len(sd.slices[k].profile) : sd.slices[k].profile[j] = url
             THEN [slices |-> sd.slices,
                   log |-> <<Diag("warn", "DuplicateSliceError", e, r)>>]
             ELSE [slices |-> sd.slices, log |-> err("DuplicateSliceError")]
        ELSE IF k # 0
             THEN [slices |-> sd.slices, log |-> err("DuplicateSliceError")]
             ELSE [slices |-> Append(sd.slices, Slice(rule.path, rule.value, <<>>)),
                   log |-> IF def.kind \in {"Profile", "Logical"}
                           THEN err("InlineExtensionOutsideExtension") ELSE <<>>]

\* A ContainsRule on an element that is not an extension: a slice for the
\* item, a type on the item is an error.
AddPlainSlice(sd, e, r, rule) ==
    LET k == SliceIndex(sd.slices, rule.path, rule.value)
        typed == IF rule.ref # "" THEN <<Diag("error", "TypeOnPlainSlice", e, r)>> ELSE <<>>
    IN  IF k # 0
        THEN [slices |-> sd.slices,
              log |-> Append(typed, Diag("error", "DuplicateSliceError", e, r))]
        ELSE [slices |-> Append(sd.slices, Slice(rule.path, rule.value, <<>>)),
              log |-> typed]

\* The ContainsRule branch of setRules.
ContainsResult(sd, def, e, r, rule, url) ==
    IF IsExtensionElement(rule.path)
    THEN HandleExtensionContainsRule(sd, def, e, r, rule, url)
    ELSE AddPlainSlice(sd, e, r, rule)

\* if (!element.slicing) element.sliceIt('value', 'url')
SliceIt(slicing, path) ==
    IF MapHas(slicing, path) THEN slicing ELSE MapSet(slicing, path, "value/url")

\* The path of the url element of the slice: rule.path[sliceName].url
SliceUrlPath(path, name) ==
    [i \in 1..(Len(path) + 1) |->
        IF i < Len(path) THEN path[i]
        ELSE IF i = Len(path) THEN path[i] \o "[" \o name \o "]"
        ELSE "url"]

\* The inline slice whose url element is left unassigned.
AssignSliceUrlSkipped(values, path, name) == values

\* urlElement.assignValue(slice.sliceName, true)
AssignSliceUrl(values, path, name) == MapSet(values, SliceUrlPath(path, name), name)

\* The rule seen as the rule of one of its items.
ItemRule(rule, item) == [rule EXCEPT !.value = item.name, !.ref = item.type, !.more = <<>>]

\* rule.items.forEach given up at the first item that fails.
RECURSIVE ContainsItemsUntilFailure(_, _, _, _, _, _, _, _)
ContainsItemsUntilFailure(acc, t, p, def, e, r, rule, i) ==
    IF i > Len(Items(rule)) THEN acc
    ELSE LET item == Items(rule)[i]
             url == FishForMetadataUrl(t, p, item.type)
             out == ContainsResult(acc.sd, def, e, r, ItemRule(rule, item), url)
             inline == /\ IsExtensionElement(rule.path) /\ item.type = ""
                       /\ out.slices # acc.sd.slices
             next == [sd |-> [acc.sd EXCEPT !.slices = out.slices,
                                            !.values = IF inline
                                                       THEN AssignSliceUrl(@, rule.path, item.name)
                                                       ELSE @],
                      log |-> acc.log \o out.log]
         IN  IF out.slices = acc.sd.slices THEN next
             ELSE ContainsItemsUntilFailure(next, t, p, def, e, r, rule, i + 1)

\* rule.items.forEach: item after item from item i on, a failing item
\* ending the callback of that item only.  acc holds the artifact and the
\* diagnostics logged.
RECURSIVE ContainsItems(_, _, _, _, _, _, _, _)
ContainsItems(acc, t, p, def, e, r, rule, i) ==
    IF i > Len(Items(rule)) THEN acc
    ELSE LET item == Items(rule)[i]
             url == FishForMetadataUrl(t, p, item.type)
             out == ContainsResult(acc.sd, def, e, r, ItemRule(rule, item), url)
             inline == /\ IsExtensionElement(rule.path) /\ item.type = ""
                       /\ out.slices # acc.sd.slices
             next == [sd |-> [acc.sd EXCEPT !.slices = out.slices,
                                            !.values = IF inline
                                                       THEN AssignSliceUrl(@, rule.path, item.name)
                                                       ELSE @],
                      log |-> acc.log \o out.log]
         IN  ContainsItems(next, t, p, def, e, r, rule, i + 1)

\* structDef.setInstancePropertyByPath(caretPath, value)
SetProperty(p, oid, r, caretPath, value) ==
    LET sd == ArtifactOf(p, oid)
    IN  UpdateArtifact(p, oid,
            IF caretPath = "name"
            THEN [sd EXCEPT !.name = value, !.applied = Append(@, r)]
            ELSE [sd EXCEPT !.applied = Append(@, r)])

\* structDef.findElementByPath(rule.path, this): the element is there when
\* the definition the path unfolds was found and the artifact has the path
\* (the empty path is the root element; a path into the slice sub of
\* extension needs the slice).
ElementFound(sd, rule, unfolded) ==
    /\ (rule.unfold # "" => unfolded.found)
    /\ \/ rule.path = <<>>
       \/ rule.path \in sd.elements
       \/ /\ Len(rule.path) = 2
          /\ rule.path[1] = "extension[sub]"
          /\ rule.path[2] \in {"extension", "url", "value[x]"}
          /\ \E i \in 1..Len(sd.slices) :
                sd.slices[i].path = <<"extension">> /\ sd.slices[i].name = "sub"

\* findElementByPath has to unfold a definition: it fishes for it through
\* the exporter, outside of any try block.
SetRulesFindElement ==
    /\ InFrame("exportStructDef", "rules")
    /\ Top.r <= Top.n
    /\ CurrentRule.unfold # ""
    /\ Invoke([Top EXCEPT !.pc = "path"],
              Frame("fishForFHIR", 0, CurrentRule.unfold, "start", 0, 0, 0))
    /\ UNCHANGED <<tank, pkg, deferred, log, phase, calls, history>>

\* The missing element reported below the level of an error.
NoElementWarned(e, r) == Diag("warn", "NoElementFound", e, r)

NoElement(e, r) == Diag("error", "NoElementFound", e, r)

\* The body of the loop over sdRules once the element is looked up.
SetRulesRule ==
    /\ \/ InFrame("exportStructDef", "rules") /\ Top.r <= Top.n /\ CurrentRule.unfold = ""
       \/ InFrame("exportStructDef", "path") /\ ret.t = "return"
    /\ LET rule == CurrentRule
           seen == Visit(pkg, Top.sd, Top.r)
           sd == ArtifactOf(seen, Top.sd)
           element == ElementFound(sd, rule, ret.json)
       IN  CASE rule.kind = "CaretValueRule" ->
                  /\ IF rule.path # <<>>
                     THEN /\ pkg' = IF element THEN Applied(seen, Top.sd, Top.r) ELSE seen
                          /\ log' = IF element THEN log
                                    ELSE log \o <<NoElement(Top.e, Top.r), NoElement(Top.e, Top.r)>>
                          /\ UNCHANGED deferred
                     ELSE IF rule.isInstance
                     THEN /\ deferred' = Append(deferred, [sd |-> Top.sd, rule |-> rule,
                                                            e |-> Top.e, r |-> Top.r])
                          /\ pkg' = seen
                          /\ UNCHANGED log
                     ELSE /\ pkg' = SetProperty(seen, Top.sd, Top.r, rule.caretPath, rule.value)
                          /\ UNCHANGED <<deferred, log>>
                  /\ stack' = NextRule
                  /\ ret' = NoRet
             [] rule.kind = "CardRule" ->
                  /\ pkg' = IF element THEN ConstrainCardinality(seen, Top.sd, Top.r, rule)
                            ELSE seen
                  /\ log' = IF element THEN log ELSE Append(log, NoElement(Top.e, Top.r))
                  /\ stack' = NextRule
                  /\ ret' = NoRet
                  /\ UNCHANGED deferred
             [] rule.kind = "OnlyRule" ->
                  IF element
                  THEN /\ Invoke([Top EXCEPT !.pc = "apply"],
                                 Frame("fishForFHIR", 0, rule.ref, "start", 0, 0, 0))
                       /\ pkg' = seen
                       /\ UNCHANGED <<deferred, log>>
                  ELSE /\ log' = Append(log, NoElement(Top.e, Top.r))
                       /\ stack' = NextRule
                       /\ ret' = NoRet
                       /\ pkg' = seen
                       /\ UNCHANGED deferred
             [] rule.kind = "AssignmentRule" ->
                  LET found == ~rule.isInstance \/ rule.value \in ExportableInstances
                      value == IF rule.isInstance THEN InstanceDefinition(rule.value)
                               ELSE rule.value
                  IN  /\ pkg' = IF element /\ found
                                THEN AssignValue(seen, Top.sd, Top.r, rule.path, value)
                                ELSE seen
                      /\ log' = IF ~element THEN Append(log, NoElement(Top.e, Top.r))
                                ELSE IF ~found
                                THEN Append(log, Diag("error", "InstanceNotFound", 0, 0))
                                ELSE log
                      /\ stack' = NextRule
                      /\ ret' = NoRet
                      /\ UNCHANGED deferred
             [] rule.kind = "BindingRule" ->
                  /\ pkg' = IF element
                            THEN BindToVS(seen, Top.sd, Top.r, rule.path,
                                          ValueSetURI(tank, rule.value), rule.strength)
                            ELSE seen
                  /\ log' = IF element THEN log ELSE Append(log, NoElement(Top.e, Top.r))
                  /\ stack' = NextRule
                  /\ ret' = NoRet
                  /\ UNCHANGED deferred
             [] rule.kind = "ObeysRule" ->
                  LET out == ApplyObeysRule(sd, Top.e, Top.r, rule)
                      took == out.constraints # sd.constraints
                  IN  /\ pkg' = IF ~element THEN seen
                                ELSE UpdateArtifact(seen, Top.sd,
                                         [sd EXCEPT !.constraints = out.constraints,
                                                    !.applied = IF took THEN Append(@, Top.r)
                                                                ELSE @])
                      /\ log' = IF element THEN log \o out.log
                                ELSE Append(log, NoElement(Top.e, Top.r))
                      /\ stack' = NextRule
                      /\ ret' = NoRet
                      /\ UNCHANGED deferred
             [] rule.kind = "ContainsRule" ->
                  LET sliced == IF IsExtensionElement(rule.path)
                                THEN [sd EXCEPT !.slicing = SliceIt(@, rule.path)]
                                ELSE sd
                      out == ContainsItems([sd |-> sliced, log |-> <<>>], tank, seen,
                                           tank[Top.e], Top.e, Top.r, rule, 1)
                      took == out.sd.slices # sd.slices
                  IN  /\ pkg' = IF ~element THEN seen
                                ELSE UpdateArtifact(seen, Top.sd,
                                         [out.sd EXCEPT !.applied = IF took THEN Append(@, Top.r)
                                                                   ELSE @])
                      /\ log' = IF element THEN log \o out.log
                                ELSE Append(log, NoElement(Top.e, Top.r))
                      /\ stack' = NextRule
                      /\ ret' = NoRet
                      /\ UNCHANGED deferred
    /\ tank' = IF /\ CurrentRule.kind = "AssignmentRule"
                  /\ CurrentRule.isInstance
                  /\ CurrentRule.value \in ExportableInstances
                  /\ ElementFound(ArtifactOf(pkg, Top.sd), CurrentRule, ret.json)
               THEN [tank EXCEPT ![Top.e].rules[Top.r].value = InstanceDefinition(@)]
               ELSE tank
    /\ UNCHANGED <<phase, calls, history>>

\* element.constrainType got its answer from the fisher: a type that is
\* not found is an error raised and caught inside the try block.
SetRulesConstrainType ==
    /\ InFrame("exportStructDef", "apply")
    /\ ret.t = "return"
    /\ pkg' = IF ret.json.found THEN Applied(pkg, Top.sd, Top.r) ELSE pkg
    /\ log' = IF ret.json.found THEN log
              ELSE Append(log, Diag("error", "TypeNotFoundError", Top.e, Top.r))
    /\ stack' = NextRule
    /\ ret' = NoRet
    /\ UNCHANGED <<tank, deferred, phase, calls, history>>

\* catch (e) { logger.error(e.message, rule.sourceInfo) }
SetRulesCatch ==
    /\ InFrame("exportStructDef", "apply")
    /\ ret.t = "throw"
    /\ log' = Append(log, Diag("error", ret.code, Top.e, Top.r))
    /\ stack' = NextRule
    /\ ret' = NoRet
    /\ UNCHANGED <<tank, pkg, deferred, phase, calls, history>>

\* After setRules: inProgress = false, the check for another artifact
\* with the same id, return structDef.
ExportStructDefReturn ==
    /\ InFrame("exportStructDef", "rules")
    /\ Top.r > Top.n
    /\ LET sd == ArtifactOf(pkg, Top.sd)
           twin == \E other \in ArtifactSet(pkg) : other.id = sd.id /\ other.oid # sd.oid
       IN  /\ pkg' = UpdateArtifact(pkg, Top.sd, [sd EXCEPT !.inProgress = FALSE])
           /\ log' = IF twin THEN Append(log, Diag("error", "DuplicateId", Top.e, 0)) ELSE log
    /\ stack' = Pop
    /\ ret' = ReturnSd(Top.sd)
    /\ history' = Append(history, Ended(Top, FALSE, "return", Top.sd, ""))
    /\ UNCHANGED <<tank, deferred, phase, calls>>

----------------------------------------------------------------------------
(* fishForFHIR of the exporter                                             *)

\* this.fisher.fishForFHIR(item); when nothing is found and the tank has
\* a Profile, Extension or Logical of that name, it is exported first.
FishForFHIR ==
    /\ InFrame("fishForFHIR", "start")
    /\ LET result == MasterFishForFHIR(pkg, Top.item)
           fshDefinition == TankFish(tank, Top.item, Kinds)
       IN  IF ~result.found /\ fshDefinition # 0
           THEN Invoke([Top EXCEPT !.pc = "exported"],
                       Frame("exportStructDef", fshDefinition, "", "start", 0, 0, 0))
           ELSE /\ stack' = Pop
                /\ ret' = ReturnJson(result)
    /\ UNCHANGED <<tank, pkg, deferred, log, phase, calls, history>>

\* result = this.fisher.fishForFHIR(item) again, after the export.
FishForFHIRAgain ==
    /\ InFrame("fishForFHIR", "exported")
    /\ ret.t = "return"
    /\ stack' = Pop
    /\ ret' = ReturnJson(MasterFishForFHIR(pkg, Top.item))
    /\ UNCHANGED <<tank, pkg, deferred, log, phase, calls, history>>

----------------------------------------------------------------------------
(* applyDeferredRules                                                      *)

\* The keys of the map deferredRules, in the order of their insertion.
RECURSIVE DeferredKeys(_, _, _)
DeferredKeys(d, i, keys) ==
    IF i > Len(d) THEN keys
    ELSE IF \E k \in 1..Len(keys) : keys[k] = d[i].sd
         THEN DeferredKeys(d, i + 1, keys)
         ELSE DeferredKeys(d, i + 1, Append(keys, d[i].sd))

\* deferredRules.get(sd): the rules pushed for the artifact, in the order
\* they were pushed.
RECURSIVE DeferredOf(_, _, _)
DeferredOf(d, oid, i) ==
    IF i > Len(d) THEN <<>>
    ELSE IF d[i].sd = oid THEN <<d[i]>> \o DeferredOf(d, oid, i + 1)
    ELSE DeferredOf(d, oid, i + 1)

\* The caller of the exporter calls applyDeferredRules once export() has
\* returned.  The frame is at key sd of the map and at rule r of the key.
ApplyDeferredRules ==
    /\ phase = "exported"
    /\ stack = <<>>
    /\ ret.t = "none"
    /\ phase' = "retrying"
    /\ stack' = <<Frame("applyDeferredRules", 0, "", "next", 1, 1, 0)>>
    /\ UNCHANGED <<tank, pkg, deferred, log, ret, calls, history>>

\* The entry of the map the frame is at (forEach and for-of see what is
\* added while they run).
AtDeferredKey == Top.sd <= Len(DeferredKeys(deferred, 1, <<>>))

DeferredHere == DeferredOf(deferred, DeferredKeys(deferred, 1, <<>>)[Top.sd], 1)

\* for (const rule of rules): const fishedValue = this.fishForFHIR(rule.value)
\* (an export on demand can queue rules for a new artifact, which forEach
\* gets to as well: the loop is followed up to MaxDeferred queued rules).
ApplyDeferredRulesFish ==
    /\ InFrame("applyDeferredRules", "next")
    /\ AtDeferredKey
    /\ Len(deferred) <= MaxDeferred
    /\ IF Top.r <= Len(DeferredHere)
       THEN Invoke([Top EXCEPT !.pc = "fished"],
                   Frame("fishForFHIR", 0, DeferredHere[Top.r].rule.value, "start", 0, 0, 0))
       ELSE /\ stack' = SetTop([Top EXCEPT !.sd = Top.sd + 1, !.r = 1])
            /\ UNCHANGED ret
    /\ UNCHANGED <<tank, pkg, deferred, log, phase, calls, history>>

CouldNotFind(e, r) == Diag("error", "CouldNotFindResource", e, r)

\* if (fishedValue) sd.setInstancePropertyByPath(rule.caretPath, ...)
\* else logger.error('Could not find a resource named ...')
ApplyDeferredRulesSet ==
    /\ InFrame("applyDeferredRules", "fished")
    /\ ret.t = "return"
    /\ LET d == DeferredHere[Top.r]
       IN  IF ret.json.found
           THEN /\ pkg' = SetProperty(pkg, d.sd, d.r, d.rule.caretPath, d.rule.value)
                /\ UNCHANGED log
           ELSE /\ log' = Append(log, CouldNotFind(d.e, d.r))
                /\ UNCHANGED pkg
    /\ stack' = SetTop([Top EXCEPT !.pc = "next", !.r = Top.r + 1])
    /\ ret' = NoRet
    /\ UNCHANGED <<tank, deferred, phase, calls, history>>

\* fishForFHIR raised: no handler is around the call, the exception leaves
\* the loops and applyDeferredRules.
ApplyDeferredRulesRaise ==
    /\ InFrame("applyDeferredRules", "fished")
    /\ ret.t = "throw"
    /\ stack' = Pop
    /\ ret' = NoRet
    /\ phase' = "retry raised"
    /\ UNCHANGED <<tank, pkg, deferred, log, calls, history>>

\* forEach is over: applyDeferredRules returns.
ApplyDeferredRulesReturn ==
    /\ InFrame("applyDeferredRules", "next")
    /\ ~AtDeferredKey
    /\ stack' = Pop
    /\ phase' = "retried"
    /\ UNCHANGED <<tank, pkg, deferred, log, ret, calls, history>>

----------------------------------------------------------------------------

Next ==
    \/ Export
    \/ ExportForEach
    \/ ExportForEachNext
    \/ ExportCatch
    \/ ExportReturn
    \/ Call
    \/ CallEnd
    \/ ExportStructDefSkip
    \/ GetStructureDefinition
    \/ ExportStructDefPublish
    \/ Unwind
    \/ SetRulesFindElement
    \/ SetRulesRule
    \/ SetRulesConstrainType
    \/ SetRulesCatch
    \/ ExportStructDefReturn
    \/ FishForFHIR
    \/ FishForFHIRAgain
    \/ ApplyDeferredRules
    \/ ApplyDeferredRulesFish
    \/ ApplyDeferredRulesSet
    \/ ApplyDeferredRulesRaise
    \/ ApplyDeferredRulesReturn

Spec == Init /\ [][Next]_vars

----------------------------------------------------------------------------
(* export() of a tank that declares one entity with a valid external       *)
(* parent, for the rules that work on the entity's own elements            *)

SdRuleChoices ==
    { ContainsRule(<<"extension">>, "sub", "X"),
      ContainsRule(<<"extension">>, "sub", "Y"),
      ContainsRule(<<"extension">>, "sub", ""),
      CardRule(<<"extension">>, "", "0"),
      CardRule(<<"value[x]">>, "", "1"),
      CardRule(<<"value[x]">>, "", "0"),
      CardRule(<<"extension[sub]", "value[x]">>, "", "1"),
      AddElementRule(<<"new">>, "string"),
      AddElementRule(<<"bad">>, ""),
      CardRule(<<"new">>, "", "1"),
      CaretValueRule(<<"nope">>, "short", "v", FALSE) }

\* A Profile needs a parent; an Extension and a Logical get their default.
ExternalParent(kind) == IF kind = "Profile" THEN "Patient" ELSE ""

InitRules ==
    /\ \E k \in 1..3, n \in 0..MaxSdRules :
          \E rl \in [1..n -> SdRuleChoices] :
              tank = <<Entity(Kinds[k], "A", ExternalParent(Kinds[k]), rl)>>
    /\ pkg = EmptyPackage
    /\ deferred = <<>>
    /\ log = <<>>
    /\ stack = <<>>
    /\ ret = NoRet
    /\ phase = "new"
    /\ calls = 0
    /\ history = <<>>

NextRules ==
    \/ Export
    \/ ExportForEach
    \/ ExportForEachNext
    \/ ExportReturn
    \/ GetStructureDefinition
    \/ FishForFHIR
    \/ ExportStructDefPublish
    \/ SetRulesRule
    \/ ExportStructDefReturn

SpecRules == InitRules /\ [][NextRules]_vars

----------------------------------------------------------------------------
(* One entity with a title, a description and rules that bound, bind and   *)
(* assign, under each setting of applyExtensionMetadataToRoot              *)

ValueRuleChoices ==
    { CardRuleOf(<<"name">>, 1, "1"),
      BindingRule(<<"gender">>, "V", "required"),
      AssignmentRule(<<"gender">>, "Example", TRUE),
      AssignmentRule(<<"gender">>, "Nope", TRUE),
      AssignmentRule(<<"extension">>, "Example", TRUE),
      AssignmentRule(<<"url">>, "text", FALSE),
      ObeysRule(<<"name">>, "inv-1"),
      ObeysRule(<<"name">>, "inv_2"),
      ObeysRule(<<"name">>, "nope") }

\* The rules of SpecSlices: ContainsRules of one or two items, on the
\* extension element and on an element that is no extension.
SliceRuleChoices ==
    { ContainsRuleOf(<<"extension">>, <<Item("s1", "Nope"), Item("s2", "X")>>),
      ContainsRuleOf(<<"extension">>, <<Item("s2", "X"), Item("s3", "")>>),
      ContainsRule(<<"extension">>, "s3", ""),
      ContainsRule(<<"extension">>, "s2", "Y"),
      ContainsRuleOf(<<"name">>, <<Item("n1", ""), Item("n2", "X")>>) }

\* The parents of SpecSlices: an Extension may also derive from the
\* external extension Y, whose extension element is sliced already.
SliceParents(kind) ==
    IF kind = "Extension" THEN {ExternalParent(kind), "Y"} ELSE {ExternalParent(kind)}

InitSlices ==
    /\ \E k \in 1..3, n \in 0..MaxSliceRules :
          \E rl \in [1..n -> SliceRuleChoices], parent \in SliceParents(Kinds[k]) :
              tank = <<Entity(Kinds[k], "A", parent, rl)>>
    /\ pkg = EmptyPackage
    /\ deferred = <<>>
    /\ log = <<>>
    /\ stack = <<>>
    /\ ret = NoRet
    /\ phase = "new"
    /\ calls = 0
    /\ history = <<>>

SpecSlices == InitSlices /\ [][NextRules]_vars

\* The parents of SpecValues: an Extension may also derive from the
\* external extension X, which carries a context of its own.
ValueParents(kind) ==
    IF kind = "Extension" THEN {ExternalParent(kind), "X"} ELSE {ExternalParent(kind)}

InitValues ==
    /\ \E k \in 1..3, n \in 0..MaxValueRules, title \in {"", "T"}, description \in {"", "D"},
          config \in {"absent", "true", "false"} :
          \E rl \in [1..n -> ValueRuleChoices] :
              \E parent \in ValueParents(Kinds[k]) :
                  tank = <<[Entity(Kinds[k], "A", parent, rl)
                               EXCEPT !.title = title, !.description = description,
                                      !.config = config]>>
    /\ pkg = EmptyPackage
    /\ deferred = <<>>
    /\ log = <<>>
    /\ stack = <<>>
    /\ ret = NoRet
    /\ phase = "new"
    /\ calls = 0
    /\ history = <<>>

SpecValues == InitValues /\ [][NextRules]_vars

----------------------------------------------------------------------------
(* Entities of any kinds declared in any order, each with a parent of the  *)
(* external library                                                        *)

IsProfile(d) == d.kind = "Profile"
IsExtension(d) == d.kind = "Extension"
IsLogical(d) == d.kind = "Logical"

\* tank.getAllStructureDefinitions(): the profiles of the documents, then
\* the extensions, then the logicals.
getAllStructureDefinitions(decls) ==
    SelectSeq(decls, IsProfile) \o SelectSeq(decls, IsExtension) \o SelectSeq(decls, IsLogical)

\* One of the entities may declare the id Extension.
InitOrder ==
    /\ \E n \in 1..MaxDeclared :
          \E k \in [1..n -> 1..3],
             rl \in [1..n -> {<<>>, <<CardRule(<<"extension">>, "", "1")>>}],
             x \in 0..n :
              tank = getAllStructureDefinitions(
                         [i \in 1..n |->
                             [Entity(Kinds[k[i]], Names[i], ExternalParent(Kinds[k[i]]), rl[i])
                                 EXCEPT !.declaredAt = i,
                                        !.id = IF i = x THEN "Extension" ELSE @]])
    /\ pkg = EmptyPackage
    /\ deferred = <<>>
    /\ log = <<>>
    /\ stack = <<>>
    /\ ret = NoRet
    /\ phase = "new"
    /\ calls = 0
    /\ history = <<>>

SpecOrder == InitOrder /\ [][NextRules]_vars

----------------------------------------------------------------------------
(* tank.fish on its own: a tank of declarations of every kind that share   *)
(* a name, and a caller that fishes for an item with a list of types       *)

\* Declarations named A of the kinds with a map of their own in a
\* document, a second Profile, and Instances: an example, definitional
\* Instances of StructureDefinition that declare a profile, an extension,
\* a logical model, a resource, or both of the latter, one that is no
\* Definition, and definitional Instances of ValueSet and CodeSystem.
DeclChoices ==
    { Decl(k, "A", "1") : k \in {"Profile", "Extension", "Logical", "Resource", "ValueSet",
                                 "CodeSystem", "Invariant", "RuleSet", "Mapping"} }
    \cup { Decl("Profile", "B", "1"), Decl("Profile", "A", "2") }
    \cup { Instance("A", "Patient", "Example", {}, FALSE, {}),
           Instance("A", "StructureDefinition", "Definition", {"constraint"}, FALSE, {}),
           Instance("A", "StructureDefinition", "Definition", {"constraint"}, TRUE, {}),
           Instance("A", "StructureDefinition", "Definition", {"specialization"}, FALSE,
                    {"logical"}),
           Instance("A", "StructureDefinition", "Definition", {"specialization"}, FALSE,
                    {"resource"}),
           Instance("A", "StructureDefinition", "Definition", {"specialization"}, FALSE,
                    {"logical", "resource"}),
           Instance("A", "StructureDefinition", "Example", {"constraint"}, FALSE, {}),
           Instance("A", "ValueSet", "Definition", {}, FALSE, {}),
           Instance("A", "CodeSystem", "Definition", {}, FALSE, {}) }

\* The identifiers fished for: a name, an id, a url, an alias of the url,
\* versioned names, and a second name.
FishItems == {"A", "a", UrlOf("a"), "$a", "A|1", "A|2", "B"}

\* The values of Type a caller can pass; the tank has no case for Type.
FishTypeChoices ==
    {"Profile", "Extension", "Logical", "Resource", "ValueSet", "CodeSystem", "Instance",
     "Invariant", "RuleSet", "Mapping", "Type"}

InitFish ==
    /\ \E n \in 0..MaxDecls : tank \in [1..n -> DeclChoices]
    /\ pkg = EmptyPackage
    /\ deferred = <<>>
    /\ log = <<>>
    /\ stack = <<>>
    /\ ret = NoRet
    /\ phase = "new"
    /\ calls = 0
    /\ history = <<>>

\* A caller calls tank.fish(item, ...types); oid is the position in the
\* tank of the declaration returned (0: undefined).
Fish ==
    /\ stack = <<>>
    /\ ret.t = "none"
    /\ \E item \in FishItems, n \in 0..MaxTypes :
          \E types \in [1..n -> FishTypeChoices] :
              /\ stack' = <<[fn |-> "fish", item |-> item, types |-> types]>>
              /\ ret' = ReturnSd(TankFish(tank, item, types))
    /\ UNCHANGED <<tank, pkg, deferred, log, phase, calls, history>>

\* The caller has the result.
FishReturn ==
    /\ stack # <<>>
    /\ Top.fn = "fish"
    /\ stack' = <<>>
    /\ ret' = NoRet
    /\ UNCHANGED <<tank, pkg, deferred, log, phase, calls, history>>

NextFish ==
    \/ Fish
    \/ FishReturn

SpecFish == InitFish /\ [][NextFish]_vars

----------------------------------------------------------------------------
(* Vocabulary of the properties                                            *)

Entities == 1..Len(tank)

\* Some artifact of the output collection was compiled from entity e.
Published(e) == \E sd \in ArtifactSet(pkg) : sd.src = e

\* A diagnostic of that severity, with one of these codes, located at e.
Logged(sev, codes, e) ==
    \E i \in 1..Len(log) : log[i].sev = sev /\ log[i].code \in codes /\ log[i].e = e

\* An exportStructDef call for e ended by returning an artifact.
Compiled(e) ==
    \E i \in 1..Len(history) :
        history[i].e = e /\ history[i].out = "return" /\ history[i].oid # 0

\* No two declared entities share a name.
DistinctNames == \A e, f \in Entities : e # f => tank[e].name # tank[f].name

\* No declared rule assigns the artifact's name.
NoNameOverride ==
    \A e \in Entities : \A i \in 1..Len(tank[e].rules) :
        tank[e].rules[i].caretPath # "name"

\* No call ran out of stack.
NoRangeError ==
    /\ ret.code # "RangeError"
    /\ \A i \in 1..Len(log) : log[i].code # "RangeError"
    /\ \A i \in 1..Len(history) : history[i].code # "RangeError"

ExportStructDefFrame(f) == f.fn = "exportStructDef"

\* setRules of the frame is running.
InSetRules(f) == ExportStructDefFrame(f) /\ f.pc \in {"rules", "path", "apply"}

----------------------------------------------------------------------------
(* C1: two entities A (parent B) and B (parent A): export() compiles both, *)
(* every exportStructDef call returns, a circular-dependency warning is    *)
(* logged for each, and both artifacts are in the output collection.       *)

CircularParents ==
    /\ tank[1].name = "A" /\ tank[1].parent = "B"
    /\ tank[2].name = "B" /\ tank[2].parent = "A"
    /\ tank[1].kind = tank[2].kind

C1_CircularParentsCompile ==
    (phase = "exported" /\ CircularParents) =>
        /\ \A i \in 1..Len(history) : history[i].out = "return"
        /\ \A e \in Entities :
              Published(e) /\ Logged("warn", {"CircularDependency"}, e)

----------------------------------------------------------------------------
(* C2: for every assignment of parent references (declared entities with  *)
(* no rules at all are enough), resolution never recurses without bound:   *)
(* the call stack never grows to the depth where the engine gives up.      *)
(* Compiling each of the NumEntities entities once needs a stack of        *)
(* 1 + 2 * NumEntities frames; MaxStack is above that.                     *)

C2_ResolutionIsBounded ==
    (\A e \in Entities : tank[e].rules = <<>>) => ret.code # "RangeError"

----------------------------------------------------------------------------
(* C3: a second exportStructDef call for an entity returns the artifact    *)
(* that the first call returned and published.  (Stated for tanks of       *)
(* distinct names without name overrides.)                                 *)

C3_SecondCallReturnsCached ==
    (DistinctNames /\ NoNameOverride) =>
    \A i, j \in 1..Len(history) :
        ( /\ i < j
          /\ history[i].e = history[j].e
          /\ history[i].out = "return" /\ history[i].oid # 0
          /\ history[j].out = "return" )
        => history[j].oid = history[i].oid

----------------------------------------------------------------------------
(* C4: while a second exportStructDef call for an entity that was already  *)
(* compiled and published is running, the output collection, the rule      *)
(* lists, the deferred rules and the log do not change.                    *)

SecondCallRunning ==
    \E k \in 1..Len(stack) : ExportStructDefFrame(stack[k]) /\ Compiled(stack[k].e)

C4_SecondCallIsNoOp ==
    [][SecondCallRunning => UNCHANGED <<pkg, tank, deferred, log>>]_vars

----------------------------------------------------------------------------
(* C5: after export(), every entity whose declared parent is its own name  *)
(* or its own id has the ParentDeclaredAsName/Id error logged for it and   *)
(* no artifact in the output collection.  (Stated for tanks where entities *)
(* of one kind have distinct names.)                                       *)

SelfParent(e) == tank[e].parent \in {tank[e].name, tank[e].id}

DistinctNamesPerKind ==
    \A e, f \in Entities :
        (e # f /\ tank[e].kind = tank[f].kind) => tank[e].name # tank[f].name

C5_SelfParentFails ==
    (phase = "exported" /\ DistinctNamesPerKind) =>
        \A e \in Entities :
            SelfParent(e) =>
                /\ ~Published(e)
                /\ Logged("error", {"ParentDeclaredAsNameError",
                                    "ParentDeclaredAsIdError"}, e)

----------------------------------------------------------------------------
(* C6: if parent resolution raised for entity E then, after export(), E    *)
(* has no artifact, the error is logged, and every other entity whose      *)
(* parent is an external definition valid for it is compiled and           *)
(* published.  (Stated for tanks of distinct names without name overrides, *)
(* and runs without stack exhaustion.)                                     *)

ParentErrors ==
    {"ParentNotProvidedError", "ParentDeclaredAsNameError", "ParentDeclaredAsIdError",
     "ParentNotDefinedError", "InvalidProfileParentError",
     "InvalidExtensionParentError", "InvalidLogicalParentError"}

\* The i-th ended call raised in step 1, during export().
RaisedInParentResolution(i) ==
    /\ history[i].out = "throw" /\ history[i].oid = 0
    /\ history[i].code \in ParentErrors
    /\ history[i].phase = "exporting"

\* The parent of D is an external definition, valid for D's kind.
Standalone(D) ==
    /\ ParentDeclarationError(tank[D]) = ""
    /\ TankFish(tank, ParentOrDefault(tank[D]), Kinds) = 0
    /\ ParentError(tank[D], FhirFishForFHIR(resolveAlias(ParentOrDefault(tank[D])))) = ""

C6_ParentErrorIsFatalForOneEntity ==
    (phase = "exported" /\ DistinctNames /\ NoNameOverride /\ NoRangeError) =>
        \A i \in 1..Len(history) :
            RaisedInParentResolution(i) =>
                /\ ~Published(history[i].e)
                /\ \E j \in 1..Len(log) :
                      log[j].sev = "error" /\ log[j].code = history[i].code
                /\ \A D \in Entities :
                      (D # history[i].e /\ Standalone(D)) => Published(D) /\ Compiled(D)

----------------------------------------------------------------------------
(* C7: an error raised while one rule of an entity is processed is caught  *)
(* and logged and the remaining rules are processed: every compilation     *)
(* that got to its rules ends by returning, all its rules gone through.    *)

C7_RuleErrorsAreCaptured ==
    \A i \in 1..Len(history) :
        history[i].oid # 0 => history[i].out = "return" /\ history[i].r > history[i].n

----------------------------------------------------------------------------
(* C8: while the rules of E are applied, E's artifact is in the output     *)
(* collection with inProgress set, and no second compilation of E gets     *)
(* past the check for an artifact that is already there.  (Stated for      *)
(* tanks of distinct names.)                                               *)

C8_PublishedInProgressBeforeRules ==
    DistinctNames =>
    /\ \A k \in 1..Len(stack) :
          InSetRules(stack[k]) =>
              \E sd \in ArtifactSet(pkg) :
                  sd.oid = stack[k].sd /\ sd.src = stack[k].e /\ sd.inProgress
    /\ \A k, m \in 1..Len(stack) :
          ( /\ k < m
            /\ InSetRules(stack[k])
            /\ ExportStructDefFrame(stack[m])
            /\ stack[m].e = stack[k].e )
          => stack[m].pc = "start"

----------------------------------------------------------------------------
(* C9: after export() returned, no artifact of the output collection has   *)
(* inProgress set.                                                         *)

C9_InProgressCleared ==
    (phase = "exported" /\ calls = 0) => \A sd \in ArtifactSet(pkg) : ~sd.inProgress

----------------------------------------------------------------------------
(* C10: when exportStructDef for B has resolved a parent whose artifact is *)
(* in progress, some caller being in the rule application of that very     *)
(* artifact, the next step logs exactly one circular-dependency warning    *)
(* for B, publishes B's artifact and enters B's rule application; the      *)
(* resolution of the parent started no exportStructDef call for the        *)
(* parent's entity and the step leaves that entity's artifacts as they are.*)

\* exportStructDef got a usable parent that is in progress, being compiled
\* by a caller that is in its rule application.
InProgressParentResolved ==
    /\ InFrame("exportStructDef", "parent")
    /\ ret.t = "return"
    /\ ret.json.inProgress
    /\ ParentError(tank[Top.e], ret.json) = ""
    /\ \E k \in 1..(Len(stack) - 1) :
          /\ ExportStructDefFrame(stack[k])
          /\ stack[k].sd = ret.json.oid
          /\ stack[k].pc \in {"path", "apply"}

CircularWarnings(l, e) ==
    Cardinality({ i \in 1..Len(l) :
        l[i].sev = "warn" /\ l[i].code = "CircularDependency" /\ l[i].e = e })

C10_InProgressParentWarnsOnce ==
    [][InProgressParentResolved =>
        LET parent == ArtifactOf(pkg, ret.json.oid).src
        IN  /\ CircularWarnings(log', Top.e) = CircularWarnings(log, Top.e) + 1
            /\ \E sd \in ArtifactSet(pkg') :
                  sd.src = Top.e /\ sd.oid = Len(Artifacts(pkg)) + 1
            /\ InFrame("exportStructDef", "rules")'
            /\ Top'.e = Top.e
            /\ \A i \in (Top.began + 1)..Len(history) : history[i].e # parent
            /\ \A sd \in ArtifactSet(pkg') : sd.src = parent => sd \in ArtifactSet(pkg)
            /\ \A sd \in ArtifactSet(pkg) : sd.src = parent => sd \in ArtifactSet(pkg')
    ]_vars

\* B, reached from the rule application of its parent A, is in its own rule
\* application, warned about and published on top of A's artifact.
C10_Witness ==
    \E k, m \in 1..Len(stack) :
        /\ k < m
        /\ stack[k].fn = "exportStructDef" /\ stack[k].pc \in {"path", "apply"}
        /\ InSetRules(stack[m])
        /\ stack[m].e # stack[k].e
        /\ CircularWarnings(log, stack[m].e) = 1
        /\ \E a, b \in ArtifactSet(pkg) :
              /\ a.oid = stack[k].sd /\ a.inProgress
              /\ b.oid = stack[m].sd /\ b.src = stack[m].e
              /\ b.baseDefinition = a.url

----------------------------------------------------------------------------
(* C11: setRules is at a rule that declares, on an extension element, a    *)
(* slice with an external extension type, and the element already has a    *)
(* slice of that name declared with the external type X.  If the rule's    *)
(* type is X again, the step logs one warning and nothing else; if it is   *)
(* another type Y, the step logs one error.  Either way the artifact keeps *)
(* exactly one slice of that name and its profile list is X's url alone.   *)

\* The number of slices of that name on the element at path.
SlicesNamed(slices, path, name) ==
    Cardinality({ i \in 1..Len(slices) : slices[i].path = path /\ slices[i].name = name })

\* setRules is at a typed ContainsRule for a slice the extension element
\* has already got from a typed ContainsRule.
SliceRedeclared ==
    /\ InFrame("exportStructDef", "rules")
    /\ Top.r <= Top.n
    /\ CurrentRule.kind = "ContainsRule"
    /\ CurrentRule.ref # ""
    /\ IsExtensionElement(CurrentRule.path)
    /\ FishForMetadataUrl(tank, pkg, CurrentRule.ref) # ""
    /\ LET sd == ArtifactOf(pkg, Top.sd)
           k == SliceIndex(sd.slices, CurrentRule.path, CurrentRule.value)
       IN  /\ CurrentRule.path \in sd.elements
           /\ k # 0
           /\ Len(sd.slices[k].profile) = 1

C11_RedeclaredSliceWarnsOrFails ==
    [][SliceRedeclared =>
        LET rule == CurrentRule
            before == ArtifactOf(pkg, Top.sd)
            after == ArtifactOf(pkg', Top.sd)
            k == SliceIndex(before.slices, rule.path, rule.value)
            same == before.slices[k].profile[1] = FishForMetadataUrl(tank, pkg, rule.ref)
        IN  /\ after.slices = before.slices
            /\ SlicesNamed(after.slices, rule.path, rule.value) = 1
            /\ log' = Append(log, Diag(IF same THEN "warn" ELSE "error",
                                       "DuplicateSliceError", Top.e, Top.r))
    ]_vars

\* `sub contains X`, again `sub contains X`, then `sub contains Y`: export() is
\* over with one slice, X's url as its profile, one warning and one error.
C11_Witness ==
    /\ phase = "exported"
    /\ \E sd \in ArtifactSet(pkg) :
          /\ Len(sd.slices) = 1
          /\ sd.slices[1].profile = <<"http://hl7.org/fhir/StructureDefinition/x">>
    /\ \E i, j \in 1..Len(log) :
          /\ log[i].sev = "warn" /\ log[i].code = "DuplicateSliceError"
          /\ log[j].sev = "error" /\ log[j].code = "DuplicateSliceError"
          /\ tank[1].rules[log[i].r].ref = "X"
          /\ tank[1].rules[log[j].r].ref = "Y"

----------------------------------------------------------------------------
(* C12: after export(), for an Extension whose declared rules use          *)
(* `extension` (a rule on that path other than a 0..0 cardinality, such as *)
(* a contains rule) and have no rule on `value[x]`, the artifact has       *)
(* value[x] at 0..0; for one whose rules use `value[x]` and have no rule   *)
(* on `extension`, the artifact has extension at 0..0.  For an entity of   *)
(* any kind whose rules use the value[x] of the inline extension sub and   *)
(* have no rule on its extension, the 0..0 rule for that extension is      *)
(* inferred, and it has taken effect if the slice sub exists.              *)

\* The rules the entity declares, and the rules inferred for it.
DeclaredRules(e) == SubSeq(tank[e].rules, 1, tank[e].declared)

InferredRules(e) == SubSeq(tank[e].rules, tank[e].declared + 1, Len(tank[e].rules))

\* Some rule is on that path / is on it without setting it to 0..0.
TouchesPath(rules, path) == \E i \in 1..Len(rules) : rules[i].path = path

UsesPath(rules, path) ==
    \E i \in 1..Len(rules) :
        rules[i].path = path /\ ~(rules[i].kind = "CardRule" /\ rules[i].max = "0")

\* The maximum the artifact constrains the element at path to ("": none).
CardMax(sd, path) ==
    LET hits == { i \in 1..Len(sd.cards) : sd.cards[i].key = path }
    IN  IF hits = {} THEN "" ELSE sd.cards[CHOOSE i \in hits : TRUE].val

HasSlice(sd, path, name) == SliceIndex(sd.slices, path, name) # 0

C12_OtherShapeIsZeroed ==
    phase = "exported" =>
        \A sd \in ArtifactSet(pkg) :
            LET D == DeclaredRules(sd.src)
                sub == "extension[sub]"
            IN  /\ ( /\ tank[sd.src].kind = "Extension"
                     /\ UsesPath(D, <<"extension">>)
                     /\ ~TouchesPath(D, <<"value[x]">>) )
                   => CardMax(sd, <<"value[x]">>) = "0"
                /\ ( /\ tank[sd.src].kind = "Extension"
                     /\ UsesPath(D, <<"value[x]">>)
                     /\ ~TouchesPath(D, <<"extension">>) )
                   => CardMax(sd, <<"extension">>) = "0"
                /\ ( /\ UsesPath(D, <<sub, "value[x]">>)
                     /\ ~TouchesPath(D, <<sub, "extension">>) )
                   => /\ TouchesPath(InferredRules(sd.src), <<sub, "extension">>)
                      /\ HasSlice(sd, <<"extension">>, "sub")
                           => CardMax(sd, <<sub, "extension">>) = "0"

\* An Extension with a contains rule on extension and no rule on value[x]
\* is exported with value[x] at 0..0.
C12_Witness ==
    /\ phase = "exported"
    /\ \E sd \in ArtifactSet(pkg) :
          /\ tank[sd.src].kind = "Extension"
          /\ \E i \in 1..tank[sd.src].declared :
                /\ tank[sd.src].rules[i].kind = "ContainsRule"
                /\ tank[sd.src].rules[i].path = <<"extension">>
          /\ ~TouchesPath(DeclaredRules(sd.src), <<"value[x]">>)
          /\ CardMax(sd, <<"value[x]">>) = "0"
          /\ HasSlice(sd, <<"extension">>, "sub")

----------------------------------------------------------------------------
(* C13: after export(), for an Extension whose declared rules use both     *)
(* `extension` and `value[x]` (rules on those paths that are not 0..0      *)
(* cardinalities), whatever their order and number: no 0..0 rule is        *)
(* inferred for value[x] or for extension, the value/sub-extension error   *)
(* is logged, and setRules has got to every declared rule.  (Stated for    *)
(* entities that declare no 0..0 cardinality.)                             *)

\* The rules setRules has got to, as a set.
VisitedRules(sd) == { sd.visited[i] : i \in 1..Len(sd.visited) }

NoZeroCardRule(rules) ==
    \A i \in 1..Len(rules) : ~(rules[i].kind = "CardRule" /\ rules[i].max = "0")

C13_BothShapesInferNothing ==
    phase = "exported" =>
        \A sd \in ArtifactSet(pkg) :
            ( /\ tank[sd.src].kind = "Extension"
              /\ NoZeroCardRule(DeclaredRules(sd.src))
              /\ UsesPath(DeclaredRules(sd.src), <<"extension">>)
              /\ UsesPath(DeclaredRules(sd.src), <<"value[x]">>) )
            => /\ ~TouchesPath(InferredRules(sd.src), <<"value[x]">>)
               /\ ~TouchesPath(InferredRules(sd.src), <<"extension">>)
               /\ Logged("error", {"ValueAndSubExtensions"}, sd.src)
               /\ 1..tank[sd.src].declared \subseteq VisitedRules(sd)

----------------------------------------------------------------------------
(* C14: after export(), for an Extension whose declared rules use both     *)
(* `extension` and `value[x]`, exactly one value/sub-extension error has   *)
(* been logged for the entity (all these rules are on the one base path,   *)
(* the root).  (Stated for entities that declare no 0..0 cardinality.)     *)

ShapeErrorCount(e) ==
    Cardinality({ i \in 1..Len(log) :
        log[i].code = "ValueAndSubExtensions" /\ log[i].e = e })

C14_ShapeContradictionReportedOnce ==
    phase = "exported" =>
        \A sd \in ArtifactSet(pkg) :
            ( /\ tank[sd.src].kind = "Extension"
              /\ NoZeroCardRule(DeclaredRules(sd.src))
              /\ ~TouchesPath(DeclaredRules(sd.src), <<"extension[sub]", "value[x]">>)
              /\ UsesPath(DeclaredRules(sd.src), <<"extension">>)
              /\ UsesPath(DeclaredRules(sd.src), <<"value[x]">>) )
            => ShapeErrorCount(sd.src) = 1

----------------------------------------------------------------------------
(* C15: in the order in which setRules gets to the rules of an artifact,   *)
(* every AddElementRule comes before every other rule, the AddElementRules *)
(* are in declaration order and so are the other rules (the inferred       *)
(* cardinality rules, which are appended, come last).  Once the loop over  *)
(* the other rules runs, setRules has got to every AddElementRule, and     *)
(* every one of them has either added its element or logged an error.      *)
(* When the artifact is complete, setRules has got to every rule.          *)

IsAddElementRule(e, r) == tank[e].rules[r].kind = "AddElementRule"

AppliedRules(sd) == { sd.applied[i] : i \in 1..Len(sd.applied) }

C15_AddElementRulesFirst ==
    \A sd \in ArtifactSet(pkg) :
        LET v == sd.visited
            e == sd.src
            adds == { r \in 1..Len(tank[e].rules) : IsAddElementRule(e, r) }
        IN  /\ \A i, j \in 1..Len(v) :
                  i < j =>
                      /\ ~(IsAddElementRule(e, v[j]) /\ ~IsAddElementRule(e, v[i]))
                      /\ (IsAddElementRule(e, v[i]) = IsAddElementRule(e, v[j])) => v[i] < v[j]
            /\ adds \subseteq VisitedRules(sd)
            /\ \A r \in adds :
                  \/ r \in AppliedRules(sd) /\ tank[e].rules[r].path \in sd.elements
                  \/ Logged("error", {"AddElementError"}, e)
                       /\ \E i \in 1..Len(log) : log[i].e = e /\ log[i].r = r
            /\ ~sd.inProgress => VisitedRules(sd) = 1..Len(tank[e].rules)

\* A rule on the new element declared first, then an addition that fails,
\* then the addition of the element: setRules got to them as 2, 3, 1, the
\* failure is logged and both other rules took effect.
C15_Witness ==
    /\ phase = "exported"
    /\ \E sd \in ArtifactSet(pkg) :
          /\ Len(tank[sd.src].rules) >= 3
          /\ Len(sd.visited) >= 3
          /\ SubSeq(sd.visited, 1, 3) = <<2, 3, 1>>
          /\ sd.applied = <<3, 1>>
          /\ IsAddElementRule(sd.src, 2) /\ IsAddElementRule(sd.src, 3)
          /\ \E i \in 1..Len(log) : log[i].code = "AddElementError" /\ log[i].r = 2

----------------------------------------------------------------------------
(* C16: when setRules gets to a rule, other than a CaretValueRule with the *)
(* empty path, whose path leads to no element of the artifact, the step    *)
(* logs the error NoElementFound for that rule and nothing else, leaves    *)
(* the artifact and the deferred rules as they were, and goes on with the  *)
(* next rule of the entity.  (A CaretValueRule on a missing element is     *)
(* reported twice, by lines 324-327 and by lines 424-427.)                 *)

AtRuleWithoutElement ==
    /\ InFrame("exportStructDef", "rules")
    /\ Top.r <= Top.n
    /\ CurrentRule.unfold = ""
    /\ ~(CurrentRule.kind = "CaretValueRule" /\ CurrentRule.path = <<>>)
    /\ ~ElementFound(ArtifactOf(pkg, Top.sd), CurrentRule, ret.json)

C16_MissingElementSkipsRule ==
    [][AtRuleWithoutElement =>
          LET sd == ArtifactOf(pkg, Top.sd)
              e == Top.e
              r == Top.r
          IN  /\ [ArtifactOf(pkg', sd.oid) EXCEPT !.visited = sd.visited] = sd
              /\ Len(Artifacts(pkg')) = Len(Artifacts(pkg))
              /\ deferred' = deferred
              /\ Len(log') > Len(log)
              /\ SubSeq(log', 1, Len(log)) = log
              /\ \A i \in (Len(log) + 1)..Len(log') :
                    log'[i] = [sev |-> "error", code |-> "NoElementFound", e |-> e, r |-> r]
              /\ stack' = NextRule
              /\ ret' = NoRet]_vars

\* The first rule constrains an element the artifact does not have and the
\* second one an element it has: the first is reported, the second applied.
C16_Witness ==
    /\ phase = "exported"
    /\ \E sd \in ArtifactSet(pkg) :
          /\ Len(sd.visited) >= 2
          /\ sd.visited[1] = 1 /\ sd.visited[2] = 2
          /\ tank[sd.src].rules[1].kind = "CardRule"
          /\ 1 \notin AppliedRules(sd)
          /\ 2 \in AppliedRules(sd)
          /\ \E i \in 1..Len(log) :
                log[i] = [sev |-> "error", code |-> "NoElementFound", e |-> sd.src, r |-> 1]

----------------------------------------------------------------------------
(* C17: no queued rule is applied to its artifact before export() has      *)
(* returned and applyDeferredRules has begun; once applyDeferredRules is   *)
(* over, every queued rule has been retried (it is applied to its artifact *)
(* or reported as not found), none is applied more than once, and the      *)
(* queue is empty.                                                         *)

Queued == { deferred[i] : i \in 1..Len(deferred) }

TimesApplied(d) ==
    LET applied == ArtifactOf(pkg, d.sd).applied
    IN  Cardinality({ i \in 1..Len(applied) : applied[i] = d.r })

ReportedNotFound(d) ==
    \E i \in 1..Len(log) : log[i] = [sev |-> "error", code |-> "CouldNotFindResource",
                                      e |-> d.e, r |-> d.r]

RetryOver == phase \in {"retried", "retry raised"}

C17_DeferredRetriedOnceAndDrained ==
    DistinctNames /\ NoNameOverride =>
    /\ phase \in {"new", "exporting", "exported"} =>
           \A d \in Queued : TimesApplied(d) = 0
    /\ RetryOver =>
           /\ \A d \in Queued : TimesApplied(d) = 1 \/ (TimesApplied(d) = 0 /\ ReportedNotFound(d))
           /\ deferred = <<>>

----------------------------------------------------------------------------
(* C18: when setRules gets to an instance-valued CaretValueRule on the     *)
(* artifact itself and the value names a definition that is resolved at    *)
(* that moment (a complete artifact of the package or an external          *)
(* definition), the step applies the rule to the artifact and queues       *)
(* nothing.                                                                *)

AtRootInstanceRule ==
    /\ InFrame("exportStructDef", "rules")
    /\ Top.r <= Top.n
    /\ CurrentRule.kind = "CaretValueRule"
    /\ CurrentRule.path = <<>>
    /\ CurrentRule.isInstance

ValueResolves ==
    LET json == MasterFishForFHIR(pkg, CurrentRule.value)
    IN  json.found /\ ~json.inProgress

C18_ResolvableValueIsNotDeferred ==
    [][DistinctNames /\ AtRootInstanceRule /\ ValueResolves =>
          /\ deferred' = deferred
          /\ Top.r \in AppliedRules(ArtifactOf(pkg', Top.sd))]_vars

----------------------------------------------------------------------------
(* C19: once applyDeferredRules is over, every queued rule whose own       *)
(* resolution does not raise (its value is found among the artifacts and   *)
(* the external definitions, or names nothing the tank could compile) has  *)
(* been retried: it is applied to its artifact or reported as not found,   *)
(* whatever happened to the other queued rules.                            *)

ResolutionDoesNotRaise(d) ==
    \/ MasterFishForFHIR(pkg, d.rule.value).found
    \/ TankFish(tank, d.rule.value, Kinds) = 0

C19_OtherQueuedRulesAreRetried ==
    DistinctNames /\ NoNameOverride /\ RetryOver =>
        \A d \in Queued :
            ResolutionDoesNotRaise(d) => TimesApplied(d) >= 1 \/ ReportedNotFound(d)

----------------------------------------------------------------------------
(* C20: tank.fish returns nothing when no kind it is asked for has a match *)
(* for the item; otherwise it returns a match of the earliest kind that    *)
(* has one, in the order of the types passed, or, when none is passed, in  *)
(* the order Profile, Extension, Logical, Resource, ValueSet, CodeSystem,  *)
(* Instance, Invariant, RuleSet, Mapping.  What it returns is a match of a *)
(* kind that was asked for.  A match of a kind is a declaration of that    *)
(* kind or a definitional Instance that declares that kind.                *)

FixedOrder ==
    <<"Profile", "Extension", "Logical", "Resource", "ValueSet", "CodeSystem", "Instance",
      "Invariant", "RuleSet", "Mapping">>

\* The definitional Instance d declares the kind k.
DeclaresKind(d, k) ==
    /\ d.kind = "Instance"
    /\ d.usage = "Definition"
    /\ \/ k = "Profile" /\ d.instanceOf = "StructureDefinition"
             /\ "constraint" \in d.derivation /\ ~d.typeExtension
       \/ k = "Extension" /\ d.instanceOf = "StructureDefinition"
             /\ "constraint" \in d.derivation /\ d.typeExtension
       \/ k = "Logical" /\ d.instanceOf = "StructureDefinition"
             /\ "specialization" \in d.derivation /\ "logical" \in d.sdKind
       \/ k = "Resource" /\ d.instanceOf = "StructureDefinition"
             /\ "specialization" \in d.derivation /\ "resource" \in d.sdKind
       \/ k \in {"ValueSet", "CodeSystem"} /\ d.instanceOf = k

\* The declaration d is a match of kind k for the identifier.
MatchOfKind(d, k, base, version) ==
    /\ d.kind = k \/ DeclaresKind(d, k)
    /\ k \in {"Invariant", "RuleSet", "Mapping"} => d.name = base
    /\ k = "Instance" => d.name = base \/ d.id = base
    /\ d.name = base \/ d.id = base \/ DeclUrl(d) = base
    /\ k \notin {"Invariant", "RuleSet", "Mapping"} => version = "" \/ version = d.version

FishCalled == stack # <<>> /\ Top.fn = "fish"

C20_EarliestKindWins ==
    FishCalled =>
        LET split == SplitItem(resolveAlias(Top.item))
            order == IF Top.types = <<>> THEN FixedOrder ELSE Top.types
            matched == { j \in 1..Len(order) :
                           \E i \in 1..Len(tank) :
                               MatchOfKind(tank[i], order[j], split[1], split[2]) }
        IN  /\ matched = {} => ret.oid = 0
            /\ matched # {} =>
                  /\ ret.oid # 0
                  /\ \E j \in matched :
                        /\ \A l \in matched : j <= l
                        /\ MatchOfKind(tank[ret.oid], order[j], split[1], split[2])
                        /\ (\E i \in 1..Len(tank) :
                               tank[i].kind = order[j]
                               /\ MatchOfKind(tank[i], order[j], split[1], split[2]))
                           => tank[ret.oid].kind = order[j]
            /\ ret.oid # 0 =>
                  \E j \in 1..Len(order) :
                      MatchOfKind(tank[ret.oid], order[j], split[1], split[2])

\* An example Instance and a Profile of the same name, in that order: with
\* no type passed the Profile is returned.
C20_Witness ==
    /\ FishCalled
    /\ Len(tank) = 2
    /\ Top.types = <<>>
    /\ tank[1].kind = "Instance" /\ tank[1].usage = "Example"
    /\ tank[2].kind = "Profile"
    /\ Top.item = "A"
    /\ ret.oid = 2

----------------------------------------------------------------------------
(* C21: tank.fish asked for one kind that has an id, a url and a version   *)
(* (Profile, Extension, Logical, Resource, ValueSet, CodeSystem, Instance) *)
(* returns a declaration of that kind exactly when one has the base of the *)
(* identifier as its name, id or url and, if the identifier has a version, *)
(* that version; only when there is none can it return a definitional      *)
(* Instance instead.                                                       *)

KindsWithUrl ==
    {"Profile", "Extension", "Logical", "Resource", "ValueSet", "CodeSystem", "Instance"}

DeclaredMatches(k, base, version) ==
    { i \in 1..Len(tank) :
        /\ tank[i].kind = k
        /\ tank[i].name = base \/ tank[i].id = base \/ DeclUrl(tank[i]) = base
        /\ version = "" \/ version = tank[i].version }

C21_DeclaredMatchByNameIdUrlVersion ==
    FishCalled /\ Len(Top.types) = 1 /\ Top.types[1] \in KindsWithUrl =>
        LET split == SplitItem(resolveAlias(Top.item))
            hits == DeclaredMatches(Top.types[1], split[1], split[2])
        IN  IF hits # {} THEN ret.oid \in hits
            ELSE ret.oid = 0 \/ DeclaresKind(tank[ret.oid], Top.types[1])

----------------------------------------------------------------------------
(* C22: no step changes the name, the id or the parent of an entity, nor   *)
(* any of its rules: a step can only append rules to the rule list.        *)

EntityKeptBut(e) ==
    /\ tank'[e].name = tank[e].name
    /\ tank'[e].id = tank[e].id
    /\ tank'[e].kind = tank[e].kind
    /\ tank'[e].parent = tank[e].parent
    /\ Len(tank'[e].rules) >= Len(tank[e].rules)
    /\ SubSeq(tank'[e].rules, 1, Len(tank[e].rules)) = tank[e].rules

C22_EntitiesOnlyGainInferredRules ==
    [][Len(tank') = Len(tank) /\ \A e \in 1..Len(tank) : EntityKeptBut(e)]_vars

----------------------------------------------------------------------------
(* C23: no step changes a rule an entity already has: the rule list of an  *)
(* entity only grows, and only by CardRules 0..0 at its end.               *)

RulesOnlyAppended(e) ==
    LET old == tank[e].rules
        new == tank'[e].rules
    IN  /\ Len(new) >= Len(old)
        /\ \A i \in 1..Len(old) : new[i] = old[i]
        /\ \A i \in (Len(old) + 1)..Len(new) :
              new[i].kind = "CardRule" /\ new[i].min = 0 /\ new[i].max = "0"

C23_RulesAreNotRewritten ==
    [][\A e \in 1..Len(tank) : RulesOnlyAppended(e)]_vars

----------------------------------------------------------------------------
(* C24: the step that finalizes an artifact logs the duplicate-id error    *)
(* exactly when another artifact in the same partition of the package      *)
(* (profiles, extensions, logicals) has the id of the artifact; it leaves  *)
(* the artifacts published.                                                *)

PartitionOf(sd) ==
    IF sd.type = "Extension" THEN "extensions"
    ELSE IF sd.kind = "logical" THEN "logicals"
    ELSE "profiles"

Finalizing == InFrame("exportStructDef", "rules") /\ Top.r > Top.n

DuplicateIdLogged ==
    /\ Len(log') = Len(log) + 1
    /\ log'[Len(log')].code = "DuplicateId"
    /\ log'[Len(log')].sev = "error"

C24_DuplicateIdWithinPartition ==
    [][Finalizing =>
          LET sd == ArtifactOf(pkg, Top.sd)
          IN  /\ DuplicateIdLogged <=>
                    \E other \in ArtifactSet(pkg) :
                        /\ other.oid # sd.oid
                        /\ other.id = sd.id
                        /\ PartitionOf(other) = PartitionOf(sd)
              /\ ~DuplicateIdLogged => log' = log
              /\ Len(Artifacts(pkg')) = Len(Artifacts(pkg))]_vars

----------------------------------------------------------------------------
(* C25: every error and every warning in the log has a source location:    *)
(* the entity, or the rule of an entity, it is about.                      *)

C25_ErrorsHaveSourceLocation ==
    \A i \in 1..Len(log) :
        log[i].sev \in {"error", "warn"} => log[i].e \in 1..Len(tank)

----------------------------------------------------------------------------
(* C26: when export() starts the compilation of an entity, it has already  *)
(* started the compilation of every entity declared before it; and export  *)
(* has one compilation in progress at a time.                              *)

StartsTopLevel == InFrame("export", "next") /\ Top.e <= Len(tank)

C26_CompiledInDeclarationOrder ==
    [][StartsTopLevel =>
          /\ \A f \in 1..Len(tank) :
                tank[f].declaredAt < tank[Top.e].declaredAt => f < Top.e
          /\ Len(stack) = 1]_vars

----------------------------------------------------------------------------
(* C27: once export() is over for a tank whose only entity is a Profile    *)
(* with parent Patient and the rules name 1..1 and gender from V           *)
(* (required), the package holds one artifact: its baseDefinition is the   *)
(* url of Patient, its derivation "constraint", its element name has the   *)
(* cardinality 1..1 and its element gender is bound to V, required.        *)

IsFooOfPatient ==
    /\ Len(tank) = 1
    /\ tank[1].kind = "Profile"
    /\ tank[1].parent = "Patient"
    /\ tank[1].declared = 2
    /\ tank[1].rules[1] = CardRuleOf(<<"name">>, 1, "1")
    /\ tank[1].rules[2] = BindingRule(<<"gender">>, "V", "required")

C27_FooCompiles ==
    phase = "exported" /\ IsFooOfPatient =>
        /\ Len(Artifacts(pkg)) = 1
        /\ LET sd == Artifacts(pkg)[1]
           IN  /\ pkg.profiles = <<sd>>
               /\ ~sd.inProgress
               /\ sd.baseDefinition = "http://hl7.org/fhir/StructureDefinition/Patient"
               /\ sd.derivation = "constraint"
               /\ \E i \in 1..Len(sd.mins) : sd.mins[i] = [key |-> <<"name">>, val |-> 1]
               /\ \E i \in 1..Len(sd.cards) : sd.cards[i] = [key |-> <<"name">>, val |-> "1"]
               /\ \E i \in 1..Len(sd.bindings) :
                     sd.bindings[i] = [key |-> <<"gender">>,
                                       val |-> [valueSet |-> "V", strength |-> "required"]]
               /\ \A i \in 1..Len(log) : log[i].sev = "info"

C27_Witness ==
    /\ phase = "exported"
    /\ IsFooOfPatient
    /\ Len(Artifacts(pkg)) = 1
    /\ Artifacts(pkg)[1].applied = <<1, 2>>

----------------------------------------------------------------------------
(* C28: the parent's kind is checked before anything is published for the  *)
(* child.  A Profile without a parent fails with ParentNotProvided, an     *)
(* Extension or a Logical without one fishes for Extension or Element; an  *)
(* unresolved parent fails with ParentNotDefined, an Extension whose       *)
(* parent's type is not Extension with InvalidExtensionParent, a Profile   *)
(* whose parent's kind is logical with InvalidProfileParent, a Logical     *)
(* whose parent is neither of kind logical nor of type Element with        *)
(* InvalidLogicalParent; in each case the package is left as it was, and a *)
(* parent that passes the checks has the child published.                  *)

\* The failure the parent parentJson means for the entity def.
KindIncompatibility(def, parentJson) ==
    CASE ~parentJson.found -> "ParentNotDefinedError"
      [] parentJson.found /\ def.kind = "Extension" /\ parentJson.type # "Extension"
            -> "InvalidExtensionParentError"
      [] parentJson.found /\ def.kind = "Profile" /\ parentJson.kind = "logical"
            -> "InvalidProfileParentError"
      [] parentJson.found /\ def.kind = "Logical" /\ parentJson.kind # "logical"
            /\ parentJson.type # "Element"
            -> "InvalidLogicalParentError"
      [] OTHER -> ""

\* The step fails with that error and publishes nothing.
FailsWith(code) == ret'.t = "throw" /\ ret'.code = code /\ pkg' = pkg

\* The step calls fishForFHIR for that item.
FishesFor(item) ==
    /\ Len(stack') = Len(stack) + 1
    /\ stack'[Len(stack')].fn = "fishForFHIR"
    /\ stack'[Len(stack')].item = item

ParentlessStep ==
    (/\ InFrame("exportStructDef", "start")
     /\ ~AlreadyExported(pkg, tank[Top.e])
     /\ tank[Top.e].parent = "") =>
        /\ tank[Top.e].kind = "Profile" => FailsWith("ParentNotProvidedError")
        /\ (tank[Top.e].kind = "Extension" /\ Len(stack) < MaxStack)
              => FishesFor("Extension")
        /\ (tank[Top.e].kind = "Logical" /\ Len(stack) < MaxStack)
              => FishesFor("Element")

ParentCheckStep ==
    (InFrame("exportStructDef", "parent") /\ ret.t = "return") =>
        LET code == KindIncompatibility(tank[Top.e], ret.json)
        IN  IF code # "" THEN FailsWith(code)
            ELSE /\ ret'.t # "throw"
                 /\ \E sd \in ArtifactSet(pkg') : sd.src = Top.e /\ sd \notin ArtifactSet(pkg)

C28_ParentKindEnforcedBeforePublishing ==
    [][ParentlessStep /\ ParentCheckStep]_vars

\* An Extension and a Logical that each name Patient as parent have been
\* refused, and nothing is published.
C28_Witness ==
    /\ pkg = EmptyPackage
    /\ \E i, j \in 1..Len(history) :
          /\ history[i].code = "InvalidExtensionParentError"
          /\ tank[history[i].e].kind = "Extension"
          /\ history[j].code = "InvalidLogicalParentError"
          /\ tank[history[j].e].kind = "Logical"

----------------------------------------------------------------------------
(* C29: the root element's short of an Extension's artifact is the         *)
(* declared title exactly when a title is declared and the flag            *)
(* applyExtensionMetadataToRoot is not false (an absent flag mirrors), and *)
(* likewise its definition and the declared description; otherwise, and    *)
(* for every Profile and Logical, the root element keeps the short and the *)
(* definition of the parent.                                               *)

\* The JSON of the external parent e's artifact is cloned from.
ParentJsonOf(e) == FhirFishForFHIR(resolveAlias(tank[e].parent))

Mirrors(e, declared) ==
    tank[e].kind = "Extension" /\ declared # "" /\ tank[e].config \in {"absent", "true"}

C29_ExtensionMetadataMirroredOnRoot ==
    \A sd \in ArtifactSet(pkg) :
        /\ sd.rootShort = IF Mirrors(sd.src, tank[sd.src].title)
                          THEN tank[sd.src].title
                          ELSE ParentJsonOf(sd.src).rootShort
        /\ sd.rootDefinition = IF Mirrors(sd.src, tank[sd.src].description)
                               THEN tank[sd.src].description
                               ELSE ParentJsonOf(sd.src).rootDefinition

\* An Extension that declares a title and no description, the flag absent,
\* is compiled: its root has the title as short and the parent's
\* definition.
C29_Witness ==
    \E sd \in ArtifactSet(pkg) :
        /\ tank[sd.src].kind = "Extension"
        /\ tank[sd.src].title = "T" /\ tank[sd.src].description = ""
        /\ tank[sd.src].config = "absent"
        /\ sd.rootShort = "T"
        /\ sd.rootDefinition = "Base definition of Extension"
        /\ ~sd.inProgress

----------------------------------------------------------------------------
(* C30: the artifact setMetadata leaves has as baseDefinition the url the  *)
(* parent had before the clone's url was overwritten; its url, id and name *)
(* are those of the entity's declaration; its derivation is specialization *)
(* for a Logical and constraint otherwise; and a Logical's type is the     *)
(* entity's id.                                                            *)

\* The artifacts the step adds to the package.
NewArtifacts == { sd \in ArtifactSet(pkg') : \A old \in ArtifactSet(pkg) : old.oid # sd.oid }

MetadataReset(sd, def, parentUrl) ==
    /\ sd.baseDefinition = parentUrl
    /\ sd.url = "http://c/StructureDefinition/" \o def.id
    /\ sd.id = def.id
    /\ sd.name = def.name
    /\ sd.derivation = IF def.kind = "Logical" THEN "specialization" ELSE "constraint"
    /\ def.kind = "Logical" => sd.type = def.id

----------------------------------------------------------------------------
(* C31: the artifact of an Extension that declares no rule on ^context has *)
(* the default context (type element, expression Element), whatever        *)
(* context its parent carries.                                             *)

DeclaresContext(e) ==
    \E i \in 1..Len(tank[e].rules) :
        tank[e].rules[i].kind = "CaretValueRule" /\ tank[e].rules[i].caretPath = "context"

C31_DefaultContext ==
    \A sd \in ArtifactSet(pkg) :
        (tank[sd.src].kind = "Extension" /\ ~DeclaresContext(sd.src)) =>
            sd.context = "Element"

----------------------------------------------------------------------------
(* C32: an ObeysRule that fails attaches nothing.  When the invariant it   *)
(* names is not declared, or the invariant's name is no valid identifier,  *)
(* an error is logged and the constraints of the element stay as they      *)
(* were; otherwise the constraint is attached with the artifact's url as   *)
(* its source.                                                             *)

AtObeysRule ==
    /\ InFrame("exportStructDef", "rules")
    /\ Top.r <= Top.n
    /\ CurrentRule.kind = "ObeysRule"
    /\ CurrentRule.path \in ArtifactOf(pkg, Top.sd).elements

ObeysRuleFails ==
    \/ CurrentRule.value \notin {"inv-1", "inv_2"}
    \/ CurrentRule.value = "inv_2"

ConstraintsOf(p, oid) == ArtifactOf(p, oid).constraints

C32_FailedObeysRuleAttachesNothing ==
    [][AtObeysRule =>
          IF ObeysRuleFails
          THEN /\ ConstraintsOf(pkg', Top.sd) = ConstraintsOf(pkg, Top.sd)
               /\ Len(log') > Len(log)
               /\ log'[Len(log')].sev = "error"
          ELSE ConstraintsOf(pkg', Top.sd) =
                  Append(ConstraintsOf(pkg, Top.sd),
                         [path |-> CurrentRule.path, key |-> CurrentRule.value,
                          source |-> ArtifactOf(pkg, Top.sd).url])]_vars

----------------------------------------------------------------------------
(* C33: in a ContainsRule on an extension element, an item whose type the  *)
(* fisher cannot find fails alone: the error that the extension cannot be  *)
(* created is logged, no slice is made for the item, and every other item  *)
(* of the rule is processed (a typed item that resolves and has no slice   *)
(* yet gets its slice with the extension's url as profile, an inline item  *)
(* that has no slice yet gets its slice).  The element gets the slicing by *)
(* value/url only when it has no slicing yet.                              *)

AtExtensionContainsRule ==
    /\ InFrame("exportStructDef", "rules")
    /\ Top.r <= Top.n
    /\ CurrentRule.kind = "ContainsRule"
    /\ CurrentRule.path = <<"extension">>
    /\ CurrentRule.path \in ArtifactOf(pkg, Top.sd).elements

\* The diagnostics the step logs.
NewLog == SubSeq(log', Len(log) + 1, Len(log'))

Count(diags, sev, code) ==
    Cardinality({ i \in 1..Len(diags) : diags[i].sev = sev /\ diags[i].code = code })

\* The slices of that name on the extension element of the artifact.
SlicesOf(sd, name) ==
    { i \in 1..Len(sd.slices) : sd.slices[i].path = <<"extension">> /\ sd.slices[i].name = name }

Unresolved(item) == item.type # "" /\ FishForMetadataUrl(tank, pkg, item.type) = ""

SlicingOf(sd, path) ==
    LET hits == { i \in 1..Len(sd.slicing) : sd.slicing[i].key = path }
    IN  IF hits = {} THEN "" ELSE sd.slicing[CHOOSE i \in hits : TRUE].val

C33_UnresolvedItemFailsAlone ==
    [][AtExtensionContainsRule =>
          LET before == ArtifactOf(pkg, Top.sd)
              after == ArtifactOf(pkg', Top.sd)
              items == Items(CurrentRule)
              fresh(i) == SlicesOf(before, items[i].name) = {}
          IN  /\ Count(NewLog, "error", "CannotCreateExtension")
                    = Cardinality({ i \in 1..Len(items) : Unresolved(items[i]) })
              /\ \A i \in 1..Len(items) :
                    /\ (Unresolved(items[i]) /\ fresh(i)) => SlicesOf(after, items[i].name) = {}
                    /\ (~Unresolved(items[i]) /\ fresh(i)) =>
                          \E k \in SlicesOf(after, items[i].name) :
                              after.slices[k].profile =
                                  IF items[i].type = "" THEN <<>>
                                  ELSE <<FishForMetadataUrl(tank, pkg, items[i].type)>>
              /\ SlicingOf(after, <<"extension">>) =
                    IF SlicingOf(before, <<"extension">>) = "" THEN "value/url"
                    ELSE SlicingOf(before, <<"extension">>)]_vars

\* An Extension derived from Y, whose extension element is sliced by type
\* already, declares `extension contains Nope named s1 and X named s2`:
\* the error is logged, s2 is the only slice and the slicing is kept.
C33_Witness ==
    \E sd \in ArtifactSet(pkg) :
        /\ tank[sd.src].kind = "Extension" /\ tank[sd.src].parent = "Y"
        /\ Len(tank[sd.src].rules) >= 1
        /\ Items(tank[sd.src].rules[1]) = <<Item("s1", "Nope"), Item("s2", "X")>>
        /\ sd.visited = <<1>>
        /\ Count(log, "error", "CannotCreateExtension") = 1
        /\ SlicesOf(sd, "s1") = {} /\ SlicesOf(sd, "s2") # {}
        /\ SlicingOf(sd, <<"extension">>) = "type/$this"

----------------------------------------------------------------------------
(* C34: an inline item (no type) of a ContainsRule on an extension element *)
(* that has no slice of its name yet gets the slice, and the url element   *)
(* of the slice is assigned the slice name; the error that inline          *)
(* extensions belong in Extensions is logged for it when the entity is a   *)
(* Profile or a Logical and never when it is an Extension.  An inline item *)
(* whose slice exists already is reported as an error, never as a warning. *)

ValueOf(sd, path) ==
    LET hits == { i \in 1..Len(sd.values) : sd.values[i].key = path }
    IN  IF hits = {} THEN "" ELSE sd.values[CHOOSE i \in hits : TRUE].val

C34_InlineExtensionItems ==
    [][AtExtensionContainsRule =>
          LET before == ArtifactOf(pkg, Top.sd)
              after == ArtifactOf(pkg', Top.sd)
              items == Items(CurrentRule)
              inline == { i \in 1..Len(items) : items[i].type = "" }
              fresh == { i \in inline : SlicesOf(before, items[i].name) = {} }
              typed == { i \in 1..Len(items) : items[i].type # "" }
          IN  /\ \A i \in fresh :
                    /\ SlicesOf(after, items[i].name) # {}
                    /\ ValueOf(after, <<"extension[" \o items[i].name \o "]", "url">>)
                          = items[i].name
              /\ Count(NewLog, "error", "InlineExtensionOutsideExtension")
                    = IF tank[Top.e].kind = "Extension" THEN 0 ELSE Cardinality(fresh)
              /\ Count(NewLog, "error", "DuplicateSliceError") >= Cardinality(inline \ fresh)
              /\ typed = {} => Count(NewLog, "warn", "DuplicateSliceError") = 0]_vars

\* A Profile declares the inline extension s3 twice: the first rule made
\* the slice, assigned its url and logged the error that inline
\* extensions belong in Extensions; the second is an error.
C34_Witness ==
    \E sd \in ArtifactSet(pkg) :
        /\ tank[sd.src].kind = "Profile"
        /\ Len(tank[sd.src].rules) >= 2
        /\ Items(tank[sd.src].rules[1]) = <<Item("s3", "")>>
        /\ Items(tank[sd.src].rules[2]) = <<Item("s3", "")>>
        /\ sd.visited = <<1, 2>>
        /\ Cardinality(SlicesOf(sd, "s3")) = 1
        /\ ValueOf(sd, <<"extension[s3]", "url">>) = "s3"
        /\ Count(log, "error", "InlineExtensionOutsideExtension") = 1
        /\ Count(log, "error", "DuplicateSliceError") = 1
        /\ Count(log, "warn", "DuplicateSliceError") = 0

----------------------------------------------------------------------------
(* C35: resolution is lazy.  fishForFHIR of the exporter starts a          *)
(* compilation only when its first lookup finds nothing (every caller in   *)
(* the exporter passes no kinds), and when that compilation has published  *)
(* an artifact, fishForFHIR returns that artifact.                         *)

\* The step starts exportStructDef from fishForFHIR.
StartsCompilation ==
    /\ InFrame("fishForFHIR", "start")
    /\ Len(stack') = Len(stack) + 1
    /\ stack'[Len(stack')].fn = "exportStructDef"

\* The compilation fishForFHIR started has returned the artifact it
\* published.
CompiledOnDemand ==
    /\ InFrame("fishForFHIR", "exported")
    /\ ret.t = "return"
    /\ ret.oid # 0

C35_LazyResolution ==
    [][/\ StartsCompilation =>
             /\ ~MasterFishForFHIR(pkg, Top.item).found
             /\ TankFish(tank, Top.item, Kinds) = stack'[Len(stack')].e
       /\ CompiledOnDemand =>
             /\ ret'.t = "return"
             /\ ret'.json.found
             /\ ret'.json.oid = ret.oid]_vars

----------------------------------------------------------------------------
(* C36: every artifact is in exactly one partition of the package, and the *)
(* partition is that of its entity's kind: the artifact of an Extension is *)
(* in extensions, the artifact of a Logical is in logicals whatever its    *)
(* id, and the artifact of a Profile is never in logicals.                 *)

Holds(list, oid) == Cardinality({ i \in 1..Len(list) : list[i].oid = oid })

C36_PartitionMatchesKind ==
    \A sd \in ArtifactSet(pkg) :
        /\ Holds(pkg.profiles, sd.oid) + Holds(pkg.extensions, sd.oid)
              + Holds(pkg.logicals, sd.oid) = 1
        /\ tank[sd.src].kind = "Extension" => Holds(pkg.extensions, sd.oid) = 1
        /\ tank[sd.src].kind = "Logical" => Holds(pkg.logicals, sd.oid) = 1
        /\ tank[sd.src].kind = "Profile" => Holds(pkg.logicals, sd.oid) = 0

----------------------------------------------------------------------------
(* C37: entities are told apart by identity, not by name.  When two        *)
(* declared entities of different kinds have the same name and each has a  *)
(* parent that is an external definition valid for it, then after export() *)
(* each of them has an artifact in the package, compiled from it.  (Stated *)
(* for tanks without name overrides.)                                      *)

SameNameOtherKind(e, f) ==
    e # f /\ tank[e].name = tank[f].name /\ tank[e].kind # tank[f].kind

C37_SameNameEntitiesBothCompiled ==
    (phase = "exported" /\ NoNameOverride /\ NoRangeError) =>
        \A e, f \in Entities :
            (SameNameOtherKind(e, f) /\ Standalone(e) /\ Standalone(f)) =>
                Published(e) /\ Published(f)

----------------------------------------------------------------------------
(* C38: whatever exportStructDef calls were made, top-level or on demand,  *)
(* the package holds at most one artifact compiled from any one entity,    *)
(* and the rules inferred for the entity were appended to its rule list at *)
(* most once (no inferred rule is in the list twice), even when a rule of  *)
(* the entity overrides the artifact's name.                               *)

ArtifactsFrom(e) == { sd \in ArtifactSet(pkg) : sd.src = e }

InferredOnce(e) ==
    \A i, j \in (tank[e].declared + 1)..Len(tank[e].rules) :
        i # j => tank[e].rules[i] # tank[e].rules[j]

C38_OneArtifactPerEntity ==
    \A e \in Entities :
        /\ Cardinality(ArtifactsFrom(e)) <= 1
        /\ InferredOnce(e)

----------------------------------------------------------------------------
(* C39: a definitional Instance of StructureDefinition is classified into  *)
(* at most one of the kinds Profile, Extension, Logical, Resource: for     *)
(* every such Instance of the tank and every identifier, tank.fish asked   *)
(* for each of the four kinds in turn returns the Instance for at most     *)
(* one of them.                                                            *)

StructureKinds == {"Profile", "Extension", "Logical", "Resource"}

DefinitionalInstance(i) ==
    /\ tank[i].kind = "Instance"
    /\ tank[i].instanceOf = "StructureDefinition"
    /\ tank[i].usage = "Definition"

KindsReturning(i, item) == { k \in StructureKinds : TankFish(tank, item, <<k>>) = i }

C39_InstanceHasOneKind ==
    \A i \in 1..Len(tank) :
        DefinitionalInstance(i) =>
            \A item \in FishItems : Cardinality(KindsReturning(i, item)) <= 1

============================================================================
